---- MODULE Spec2Model ----
(***************************************************************************)
(* Model of the TLS 1.3 application layer of openssl-ddd-architecture      *)
(* (src/application/ssl/tls1_3.c): the handshake state machine, the key    *)
(* schedule and the record encrypt/decrypt functions.                      *)
(*                                                                         *)
(* Buffers are sequences of bytes (0..255); the C index i is the TLA+      *)
(* index i+1.  The AES provider (domain/crypto/aes.c) is not part of the   *)
(* sources; only its interface aes.h is, so its three functions are        *)
(* modelled from the interface contract and marked as such.                *)
(***************************************************************************)
EXTENDS Integers, Sequences, FiniteSets, TLC

----------------------------------------------------------------------------
(* Bounds of the model *)

\* sequence_number values explored above the value after init
MaxSeq == 2
\* largest record, in 16-byte blocks, handed to encrypt/decrypt
MaxBlocks == 2
\* most arguments after the program name on a command line
MaxArgs == 3

----------------------------------------------------------------------------
(* Program constants *)

TLS_STATE_CLIENT_HELLO == 0
TLS_STATE_SERVER_HELLO == 1
TLS_STATE_CHANGE_CIPHER_SPEC == 2
TLS_STATE_FINISHED == 3
TLS_STATE_APPLICATION_DATA == 4
TLS_STATE_ERROR == 5

TLS_SUCCESS == 0
TLS_ERROR_INVALID_PARAM == -1
TLS_ERROR_INVALID_STATE == -2
TLS_ERROR_INVALID_MESSAGE == -3
TLS_ERROR_INVALID_BLOCK_SIZE == -4
TLS_ERROR_MEMORY_ALLOCATION == -5
TLS_ERROR_CRYPTO_FAILURE == -6
TLS_ERROR_UNSUPPORTED_MESSAGE == -7

TLS_MSG_CLIENT_HELLO == 1
TLS_MSG_SERVER_HELLO == 2
TLS_MSG_CHANGE_CIPHER_SPEC == 20
TLS_MSG_FINISHED == 20

AES_SUCCESS == 0
AES_ERROR_INVALID_PARAM == -1

\* a null pointer, and the pointer malloc returned
NULL == 0
PTR == 1

\* uint8_t arithmetic
U8 == 256

\* a uint64_t is held as four 16-bit limbs, least significant first
LIMB == 65536

\* sizes of the arrays of tls1_3_context_t
RANDOM_LEN == 32
MASTER_LEN == 48
KEY_LEN == 32
IV_LEN == 12
HASH_LEN == 32
BLOCK_LEN == 16

----------------------------------------------------------------------------
(* Byte helpers *)

Zeros(n) == [i \in 1..n |-> 0]

Fill(n, b) == [i \in 1..n |-> b]

IsZero(s) == \A i \in 1..Len(s) : s[i] = 0

\* data[i] of C for a buffer of Len(data) bytes; a read past the end is
\* undefined behaviour and yields the byte g the build happens to find there
ReadByte(data, i, g) == IF i < Len(data) THEN data[i + 1] ELSE g

\* memcpy(dst, data + off, n)
MemcpyFrom(data, off, n, g) == [i \in 1..n |-> ReadByte(data, off + i - 1, g)]

\* one bit of one byte inverted
FlipBit(b, k) == IF (b \div (2 ^ k)) % 2 = 1 THEN b - 2 ^ k ELSE b + 2 ^ k

\* the uint64_t 0, and x + 1 in uint64_t arithmetic (wrapping to 0)
Zero64 == << 0, 0, 0, 0 >>

Inc64(x) ==
  IF x[1] < LIMB - 1 THEN [x EXCEPT ![1] = @ + 1]
  ELSE IF x[2] < LIMB - 1 THEN [x EXCEPT ![1] = 0, ![2] = @ + 1]
  ELSE IF x[3] < LIMB - 1 THEN [x EXCEPT ![1] = 0, ![2] = 0, ![3] = @ + 1]
  ELSE IF x[4] < LIMB - 1 THEN [x EXCEPT ![1] = 0, ![2] = 0, ![3] = 0, ![4] = @ + 1]
  ELSE Zero64

\* the value of a uint64_t below 2^16, and LIMB for every larger one
Low64(x) == IF x[2] = 0 /\ x[3] = 0 /\ x[4] = 0 THEN x[1] ELSE LIMB

----------------------------------------------------------------------------
(* The context *)

HandleNames == {"aes_ctx", "sha256_ctx", "rsa_ctx", "ec_ctx"}

\* memset(ctx, 0, sizeof(tls1_3_context_t))
ZeroContext ==
  [ state            |-> TLS_STATE_CLIENT_HELLO,
    client_random    |-> Zeros(RANDOM_LEN),
    server_random    |-> Zeros(RANDOM_LEN),
    master_secret    |-> Zeros(MASTER_LEN),
    client_write_key |-> Zeros(KEY_LEN),
    server_write_key |-> Zeros(KEY_LEN),
    client_write_iv  |-> Zeros(IV_LEN),
    server_write_iv  |-> Zeros(IV_LEN),
    aes_ctx          |-> NULL,
    sha256_ctx       |-> NULL,
    rsa_ctx          |-> NULL,
    ec_ctx           |-> NULL,
    sequence_number  |-> Zero64,
    handshake_hash   |-> Zeros(HASH_LEN) ]

----------------------------------------------------------------------------
(* The AES provider, from the contract of aes.h.  An aes_context_t is     *)
(* "uninit" (fresh from malloc), "keyed" (after aes_init) or "cleared"     *)
(* (after aes_cleanup), and holds the key it was initialised with.         *)

AesFresh == [st |-> "uninit", key |-> Zeros(KEY_LEN)]

\* aes_init(ctx, key, AES_KEY_256): ok is whether the provider succeeds
aes_init(handle, a, key, ok) ==
  IF handle = NULL \/ ~ok
    THEN [aes |-> a, res |-> AES_ERROR_INVALID_PARAM]
    ELSE [aes |-> [st |-> "keyed", key |-> key], res |-> AES_SUCCESS]

\* the block transform under key k and its inverse
aes_encrypt_block(k, in) == [i \in 1..BLOCK_LEN |-> (in[i] + k[i] + i) % U8]

aes_decrypt_block(k, in) == [i \in 1..BLOCK_LEN |-> (in[i] + 2 * U8 - k[i] - i) % U8]

\* whether a block call on this context can succeed at all
aes_usable(handle, a) == handle # NULL /\ a.st = "keyed"

\* aes_cleanup(ctx)
aes_cleanup(a) == [st |-> "cleared", key |-> Zeros(KEY_LEN)]

----------------------------------------------------------------------------
(* Key schedule *)

\* uint8_t salt[] = "TLS 1.3, server to client"; the array holds the NUL
salt == << 84, 76, 83, 32, 49, 46, 51, 44, 32, 115, 101, 114, 118, 101, 114,
           32, 116, 111, 32, 99, 108, 105, 101, 110, 116, 0 >>

\* uint8_t info[] = "tls13 derived"; the array holds the NUL
info == << 116, 108, 115, 49, 51, 32, 100, 101, 114, 105, 118, 101, 100, 0 >>

\* master_secret[i] for i in 0..47, from a shared secret of Len(ss) > 0 bytes
tls_derive_master_secret(ss) ==
  [j \in 1..MASTER_LEN |->
     LET i == j - 1 IN
     (salt[(i % Len(salt)) + 1] + ss[(i % Len(ss)) + 1] + info[(i % Len(info)) + 1]) % U8]

client_write_key_of(ms) ==
  [j \in 1..KEY_LEN |-> LET i == j - 1 IN (ms[(i % MASTER_LEN) + 1] + i) % U8]

\* server_write_key_of with the "+ 128" of the server direction left out
server_write_key_unshifted(ms) ==
  [j \in 1..KEY_LEN |-> LET i == j - 1 IN (ms[(i % MASTER_LEN) + 1] + i) % U8]

server_write_key_of(ms) ==
  [j \in 1..KEY_LEN |-> LET i == j - 1 IN (ms[(i % MASTER_LEN) + 1] + i + 128) % U8]

client_write_iv_of(ms) ==
  [j \in 1..IV_LEN |-> LET i == j - 1 IN (ms[(i % MASTER_LEN) + 1] + i + 64) % U8]

server_write_iv_of(ms) ==
  [j \in 1..IV_LEN |-> LET i == j - 1 IN (ms[(i % MASTER_LEN) + 1] + i + 192) % U8]

\* the four traffic values written into the context from its master secret
tls_derive_traffic_keys(c) ==
  [c EXCEPT !.client_write_key = client_write_key_of(c.master_secret),
            !.server_write_key = server_write_key_of(c.master_secret),
            !.client_write_iv  = client_write_iv_of(c.master_secret),
            !.server_write_iv  = server_write_iv_of(c.master_secret)]

\* uint8_t shared_secret[32] = {0}
PlaceholderSharedSecret == Zeros(32)

----------------------------------------------------------------------------
(* Handshake message handlers.  Each takes the context c, the AES context  *)
(* content a, the whole message data (header included, as the dispatcher   *)
(* passes it), the byte g found by an out-of-bounds read and whether the   *)
(* provider call succeeds; each yields the context, the AES content, the   *)
(* result, and whether it read out of bounds / called the provider.        *)

Outcome(c, a, r, oob, prov) ==
  [ctx |-> c, aes |-> a, res |-> r, oob |-> oob, prov |-> prov]

\* tls_process_client_hello without its check of the current state
tls_process_client_hello_any_state(c, a, data, g, ok) ==
  IF Len(data) < 4
    THEN Outcome(c, a, TLS_ERROR_INVALID_MESSAGE, FALSE, FALSE)
  ELSE Outcome([c EXCEPT !.client_random = MemcpyFrom(data, 4, RANDOM_LEN, g),
                         !.state = TLS_STATE_SERVER_HELLO],
               a, TLS_SUCCESS, Len(data) < 4 + RANDOM_LEN, FALSE)

tls_process_client_hello(c, a, data, g, ok) ==
  IF c.state # TLS_STATE_CLIENT_HELLO
    THEN Outcome(c, a, TLS_ERROR_INVALID_STATE, FALSE, FALSE)
  ELSE IF Len(data) < 4
    THEN Outcome(c, a, TLS_ERROR_INVALID_MESSAGE, FALSE, FALSE)
  ELSE Outcome([c EXCEPT !.client_random = MemcpyFrom(data, 4, RANDOM_LEN, g),
                         !.state = TLS_STATE_SERVER_HELLO],
               a, TLS_SUCCESS, Len(data) < 4 + RANDOM_LEN, FALSE)

\* tls_process_server_hello storing the random in the client's field
tls_process_server_hello_wrong_field(c, a, data, g, ok) ==
  IF c.state # TLS_STATE_SERVER_HELLO
    THEN Outcome(c, a, TLS_ERROR_INVALID_STATE, FALSE, FALSE)
  ELSE IF Len(data) < 4
    THEN Outcome(c, a, TLS_ERROR_INVALID_MESSAGE, FALSE, FALSE)
  ELSE Outcome([c EXCEPT !.client_random = MemcpyFrom(data, 4, RANDOM_LEN, g),
                         !.state = TLS_STATE_CHANGE_CIPHER_SPEC],
               a, TLS_SUCCESS, Len(data) < 4 + RANDOM_LEN, FALSE)

tls_process_server_hello(c, a, data, g, ok) ==
  IF c.state # TLS_STATE_SERVER_HELLO
    THEN Outcome(c, a, TLS_ERROR_INVALID_STATE, FALSE, FALSE)
  ELSE IF Len(data) < 4
    THEN Outcome(c, a, TLS_ERROR_INVALID_MESSAGE, FALSE, FALSE)
  ELSE Outcome([c EXCEPT !.server_random = MemcpyFrom(data, 4, RANDOM_LEN, g),
                         !.state = TLS_STATE_CHANGE_CIPHER_SPEC],
               a, TLS_SUCCESS, Len(data) < 4 + RANDOM_LEN, FALSE)

tls_process_change_cipher_spec(c, a, data, g, ok) ==
  IF c.state # TLS_STATE_CHANGE_CIPHER_SPEC
    THEN Outcome(c, a, TLS_ERROR_INVALID_STATE, FALSE, FALSE)
  ELSE IF Len(data) < 1 \/ data[1] # 1
    THEN Outcome(c, a, TLS_ERROR_INVALID_MESSAGE, FALSE, FALSE)
  ELSE
    LET c1 == [c EXCEPT !.master_secret = tls_derive_master_secret(PlaceholderSharedSecret)]
        c2 == tls_derive_traffic_keys(c1)
        ai == aes_init(c2.aes_ctx, a, c2.client_write_key, ok)
    IN  IF ai.res # AES_SUCCESS
          THEN Outcome(c2, ai.aes, TLS_ERROR_CRYPTO_FAILURE, FALSE, TRUE)
          ELSE Outcome([c2 EXCEPT !.state = TLS_STATE_FINISHED],
                       ai.aes, TLS_SUCCESS, FALSE, TRUE)

tls_process_finished(c, a, data, g, ok) ==
  IF c.state # TLS_STATE_FINISHED
    THEN Outcome(c, a, TLS_ERROR_INVALID_STATE, FALSE, FALSE)
  ELSE IF Len(data) < 32
    THEN Outcome(c, a, TLS_ERROR_INVALID_MESSAGE, FALSE, FALSE)
  ELSE Outcome([c EXCEPT !.state = TLS_STATE_APPLICATION_DATA],
               a, TLS_SUCCESS, FALSE, FALSE)

\* the case labels of the switch, in source order
CaseLabels ==
  << [label |-> TLS_MSG_CLIENT_HELLO,       handler |-> "client_hello"],
     [label |-> TLS_MSG_SERVER_HELLO,       handler |-> "server_hello"],
     [label |-> TLS_MSG_CHANGE_CIPHER_SPEC, handler |-> "change_cipher_spec"],
     [label |-> TLS_MSG_FINISHED,           handler |-> "finished"] >>

\* the handlers a type byte can be dispatched to.  Two labels carry the
\* value 20, which no C compiler is required to accept; a build that does
\* accept it jumps to one of the two, and the model keeps both.
HandlersFor(msg_type) ==
  { CaseLabels[k].handler : k \in { n \in 1..Len(CaseLabels) : CaseLabels[n].label = msg_type } }

RunHandler(h, c, a, data, g, ok) ==
  CASE h = "client_hello"       -> tls_process_client_hello(c, a, data, g, ok)
    [] h = "server_hello"       -> tls_process_server_hello(c, a, data, g, ok)
    [] h = "change_cipher_spec" -> tls_process_change_cipher_spec(c, a, data, g, ok)
    [] h = "finished"           -> tls_process_finished(c, a, data, g, ok)

\* tls1_3_process_handshake answering an unmatched type byte as a malformed
\* message
tls1_3_process_handshake_default_invalid(c, a, data, arg, h, g, ok) ==
  IF arg # "ok"
    THEN Outcome(c, a, TLS_ERROR_INVALID_PARAM, FALSE, FALSE)
  ELSE IF Len(data) < 4
    THEN Outcome(c, a, TLS_ERROR_INVALID_MESSAGE, FALSE, FALSE)
  ELSE IF h = "default"
    THEN Outcome(c, a, TLS_ERROR_INVALID_MESSAGE, FALSE, FALSE)
  ELSE RunHandler(h, c, a, data, g, ok)

\* tls1_3_process_handshake; arg says which pointer argument is absent,
\* h is the case the switch jumps to ("default" when no label matches)
tls1_3_process_handshake(c, a, data, arg, h, g, ok) ==
  IF arg # "ok"
    THEN Outcome(c, a, TLS_ERROR_INVALID_PARAM, FALSE, FALSE)
  ELSE IF Len(data) < 4
    THEN Outcome(c, a, TLS_ERROR_INVALID_MESSAGE, FALSE, FALSE)
  ELSE IF h = "default"
    THEN Outcome(c, a, TLS_ERROR_UNSUPPORTED_MESSAGE, FALSE, FALSE)
  ELSE RunHandler(h, c, a, data, g, ok)

\* the cases the switch can jump to for this message
Dispatch(data) ==
  IF Len(data) < 4 THEN {"default"}
  ELSE IF HandlersFor(data[1]) = {} THEN {"default"}
  ELSE HandlersFor(data[1])

----------------------------------------------------------------------------
(* Record layer *)

\* block i (from 0) of a buffer
BlockOf(buf, i) == SubSeq(buf, i * BLOCK_LEN + 1, (i + 1) * BLOCK_LEN)

\* the first n blocks of buf, each passed through the block transform T
EncryptBlocks(k, buf, n) ==
  [j \in 1..(n * BLOCK_LEN) |->
     aes_encrypt_block(k, BlockOf(buf, (j - 1) \div BLOCK_LEN))[((j - 1) % BLOCK_LEN) + 1]]

\* DecryptBlocks reading every block at offset 0 instead of i * 16
DecryptBlocks_no_offset(k, buf, n) ==
  [j \in 1..(n * BLOCK_LEN) |->
     aes_decrypt_block(k, BlockOf(buf, 0))[((j - 1) % BLOCK_LEN) + 1]]

DecryptBlocks(k, buf, n) ==
  [j \in 1..(n * BLOCK_LEN) |->
     aes_decrypt_block(k, BlockOf(buf, (j - 1) \div BLOCK_LEN))[((j - 1) % BLOCK_LEN) + 1]]

\* what a record call leaves behind: the context, the result, the bytes
\* written to the output buffer, *out_len (or -1 when it was not written)
\* and the number of block transforms the provider was asked for
RecordOutcome(c, r, buf, n, calls) ==
  [ctx |-> c, res |-> r, out |-> buf, outlen |-> n, calls |-> calls]

\* the block (from 1) at which the loop stops with an error, 0 when none:
\* failAt is the block at which the provider fails, 0 when it never does
FirstFailure(c, a, blocks, failAt) ==
  IF blocks = 0 THEN 0
  ELSE IF ~aes_usable(c.aes_ctx, a) THEN 1
  ELSE IF failAt \in 1..blocks THEN failAt
  ELSE 0

\* tls1_3_encrypt_data without its check of the handshake state
tls1_3_encrypt_data_any_state(c, a, plaintext, arg, failAt) ==
  IF arg # "ok"
    THEN RecordOutcome(c, TLS_ERROR_INVALID_PARAM, << >>, 0 - 1, 0)
  ELSE IF Len(plaintext) % 16 # 0
    THEN RecordOutcome(c, TLS_ERROR_INVALID_BLOCK_SIZE, << >>, 0 - 1, 0)
  ELSE
    LET blocks == Len(plaintext) \div 16
        f == FirstFailure(c, a, blocks, failAt)
    IN  IF f # 0
          THEN RecordOutcome(c, TLS_ERROR_CRYPTO_FAILURE,
                             EncryptBlocks(a.key, plaintext, f - 1), 0 - 1, f)
          ELSE RecordOutcome([c EXCEPT !.sequence_number = Inc64(@)],
                             TLS_SUCCESS,
                             EncryptBlocks(a.key, plaintext, blocks),
                             Len(plaintext), blocks)

\* tls1_3_encrypt_data counting the record before the blocks are transformed
tls1_3_encrypt_data_early_count(c, a, plaintext, arg, failAt) ==
  IF arg # "ok"
    THEN RecordOutcome(c, TLS_ERROR_INVALID_PARAM, << >>, 0 - 1, 0)
  ELSE IF c.state # TLS_STATE_APPLICATION_DATA
    THEN RecordOutcome(c, TLS_ERROR_INVALID_STATE, << >>, 0 - 1, 0)
  ELSE IF Len(plaintext) % 16 # 0
    THEN RecordOutcome(c, TLS_ERROR_INVALID_BLOCK_SIZE, << >>, 0 - 1, 0)
  ELSE
    LET blocks == Len(plaintext) \div 16
        f == FirstFailure(c, a, blocks, failAt)
        c1 == [c EXCEPT !.sequence_number = Inc64(@)]
    IN  IF f # 0
          THEN RecordOutcome(c1, TLS_ERROR_CRYPTO_FAILURE,
                             EncryptBlocks(a.key, plaintext, f - 1), 0 - 1, f)
          ELSE RecordOutcome(c1, TLS_SUCCESS,
                             EncryptBlocks(a.key, plaintext, blocks),
                             Len(plaintext), blocks)

tls1_3_encrypt_data(c, a, plaintext, arg, failAt) ==
  IF arg # "ok"
    THEN RecordOutcome(c, TLS_ERROR_INVALID_PARAM, << >>, 0 - 1, 0)
  ELSE IF c.state # TLS_STATE_APPLICATION_DATA
    THEN RecordOutcome(c, TLS_ERROR_INVALID_STATE, << >>, 0 - 1, 0)
  ELSE IF Len(plaintext) % 16 # 0
    THEN RecordOutcome(c, TLS_ERROR_INVALID_BLOCK_SIZE, << >>, 0 - 1, 0)
  ELSE
    LET blocks == Len(plaintext) \div 16
        f == FirstFailure(c, a, blocks, failAt)
    IN  IF f # 0
          THEN RecordOutcome(c, TLS_ERROR_CRYPTO_FAILURE,
                             EncryptBlocks(a.key, plaintext, f - 1), 0 - 1, f)
          ELSE RecordOutcome([c EXCEPT !.sequence_number = Inc64(@)],
                             TLS_SUCCESS,
                             EncryptBlocks(a.key, plaintext, blocks),
                             Len(plaintext), blocks)

\* tls1_3_decrypt_data without its test of the pointers
tls1_3_decrypt_data_unchecked(c, a, ciphertext, arg, failAt) ==
  IF c.state # TLS_STATE_APPLICATION_DATA
    THEN RecordOutcome(c, TLS_ERROR_INVALID_STATE, << >>, 0 - 1, 0)
  ELSE IF Len(ciphertext) % 16 # 0
    THEN RecordOutcome(c, TLS_ERROR_INVALID_BLOCK_SIZE, << >>, 0 - 1, 0)
  ELSE
    LET blocks == Len(ciphertext) \div 16
        f == FirstFailure(c, a, blocks, failAt)
    IN  IF f # 0
          THEN RecordOutcome(c, TLS_ERROR_CRYPTO_FAILURE,
                             DecryptBlocks(a.key, ciphertext, f - 1), 0 - 1, f)
          ELSE RecordOutcome([c EXCEPT !.sequence_number = Inc64(@)],
                             TLS_SUCCESS,
                             DecryptBlocks(a.key, ciphertext, blocks),
                             Len(ciphertext), blocks)

tls1_3_decrypt_data(c, a, ciphertext, arg, failAt) ==
  IF arg # "ok"
    THEN RecordOutcome(c, TLS_ERROR_INVALID_PARAM, << >>, 0 - 1, 0)
  ELSE IF c.state # TLS_STATE_APPLICATION_DATA
    THEN RecordOutcome(c, TLS_ERROR_INVALID_STATE, << >>, 0 - 1, 0)
  ELSE IF Len(ciphertext) % 16 # 0
    THEN RecordOutcome(c, TLS_ERROR_INVALID_BLOCK_SIZE, << >>, 0 - 1, 0)
  ELSE
    LET blocks == Len(ciphertext) \div 16
        f == FirstFailure(c, a, blocks, failAt)
    IN  IF f # 0
          THEN RecordOutcome(c, TLS_ERROR_CRYPTO_FAILURE,
                             DecryptBlocks(a.key, ciphertext, f - 1), 0 - 1, f)
          ELSE RecordOutcome([c EXCEPT !.sequence_number = Inc64(@)],
                             TLS_SUCCESS,
                             DecryptBlocks(a.key, ciphertext, blocks),
                             Len(ciphertext), blocks)

tls1_3_get_state(c, arg) ==
  IF arg # "ok" THEN TLS_STATE_ERROR ELSE c.state

----------------------------------------------------------------------------
(* Construction and destruction.  hp maps each handle name to the heap     *)
(* object the context's pointer was set to: "none" (malloc failed),        *)
(* "live" or "freed", with the number of times it was passed to free.      *)

NoObject == [st |-> "none", frees |-> 0]

LiveObject == [st |-> "live", frees |-> 0]

Lifetime(c, hp, a) == [ctx |-> c, heap |-> hp, aes |-> a]

\* Release without the test of the pointer
Release_unguarded(hp, c, h) ==
  [st |-> "freed", frees |-> hp[h].frees + 1]

\* one "if (ctx->h) { h_cleanup(ctx->h); free(ctx->h); ctx->h = NULL; }"
Release(hp, c, h) ==
  IF c[h] # NULL THEN [st |-> "freed", frees |-> hp[h].frees + 1] ELSE hp[h]

\* tls1_3_cleanup without the final memset
tls1_3_cleanup_no_memset(c, hp, a) ==
  Lifetime([c EXCEPT !.aes_ctx = NULL, !.sha256_ctx = NULL,
                     !.rsa_ctx = NULL, !.ec_ctx = NULL],
           [h \in HandleNames |-> Release(hp, c, h)],
           IF c.aes_ctx # NULL THEN aes_cleanup(a) ELSE a)

tls1_3_cleanup(c, hp, a) ==
  Lifetime(ZeroContext,
           [h \in HandleNames |-> Release(hp, c, h)],
           IF c.aes_ctx # NULL THEN aes_cleanup(a) ELSE a)

\* tls1_3_init returning on a failed malloc without the call of tls1_3_cleanup
tls1_3_init_no_cleanup(mallocOk) ==
  LET c == [ZeroContext EXCEPT
              !.aes_ctx    = IF mallocOk["aes_ctx"]    THEN PTR ELSE NULL,
              !.sha256_ctx = IF mallocOk["sha256_ctx"] THEN PTR ELSE NULL,
              !.rsa_ctx    = IF mallocOk["rsa_ctx"]    THEN PTR ELSE NULL,
              !.ec_ctx     = IF mallocOk["ec_ctx"]     THEN PTR ELSE NULL]
      hp == [h \in HandleNames |-> IF mallocOk[h] THEN LiveObject ELSE NoObject]
  IN  IF \E h \in HandleNames : c[h] = NULL
        THEN [life |-> Lifetime(c, hp, AesFresh), res |-> TLS_ERROR_MEMORY_ALLOCATION]
        ELSE [life |-> Lifetime(c, hp, AesFresh), res |-> TLS_SUCCESS]

\* tls1_3_init with the outcome of each of the four malloc calls
tls1_3_init(mallocOk) ==
  LET c == [ZeroContext EXCEPT
              !.aes_ctx    = IF mallocOk["aes_ctx"]    THEN PTR ELSE NULL,
              !.sha256_ctx = IF mallocOk["sha256_ctx"] THEN PTR ELSE NULL,
              !.rsa_ctx    = IF mallocOk["rsa_ctx"]    THEN PTR ELSE NULL,
              !.ec_ctx     = IF mallocOk["ec_ctx"]     THEN PTR ELSE NULL]
      hp == [h \in HandleNames |-> IF mallocOk[h] THEN LiveObject ELSE NoObject]
  IN  IF \E h \in HandleNames : c[h] = NULL
        THEN [life |-> tls1_3_cleanup(c, hp, AesFresh), res |-> TLS_ERROR_MEMORY_ALLOCATION]
        ELSE [life |-> Lifetime(c, hp, AesFresh), res |-> TLS_SUCCESS]

----------------------------------------------------------------------------
(* Inputs *)

\* the byte sequences of tls_generate_client_random / _server_random
ClientRandomDemo == [j \in 1..RANDOM_LEN |-> ((j - 1) * 7 + 13) % U8]

ServerRandomDemo == [j \in 1..RANDOM_LEN |-> ((j - 1) * 11 + 17) % U8]

\* wire layout: 1-byte type, 3-byte big-endian length, payload
MkMsg(type, payload) == << type, 0, 0, Len(payload) >> \o payload

Msg(kind, data, wf) == [kind |-> kind, data |-> data, wf |-> wf]

\* kind is what the sender means the message to be, wf whether it is
\* well formed according to the message table
Messages ==
     { Msg("CLIENT_HELLO", MkMsg(TLS_MSG_CLIENT_HELLO, ClientRandomDemo), TRUE),
       Msg("CLIENT_HELLO", MkMsg(TLS_MSG_CLIENT_HELLO, << >>), FALSE),
         Msg("CLIENT_HELLO", << TLS_MSG_CLIENT_HELLO, 0, 0 >>, FALSE) }
  \cup { Msg("SERVER_HELLO", MkMsg(TLS_MSG_SERVER_HELLO, ServerRandomDemo), TRUE),
         Msg("SERVER_HELLO", MkMsg(TLS_MSG_SERVER_HELLO, << >>), FALSE),
         Msg("SERVER_HELLO", << TLS_MSG_SERVER_HELLO, 0, 0 >>, FALSE) }
  \cup { Msg("CHANGE_CIPHER_SPEC", MkMsg(TLS_MSG_CHANGE_CIPHER_SPEC, << 1 >>), TRUE),
         Msg("CHANGE_CIPHER_SPEC", MkMsg(TLS_MSG_CHANGE_CIPHER_SPEC, << 0 >>), FALSE),
         Msg("CHANGE_CIPHER_SPEC", MkMsg(TLS_MSG_CHANGE_CIPHER_SPEC, << >>), FALSE) }
  \cup { Msg("FINISHED", MkMsg(TLS_MSG_FINISHED, Fill(32, 9)), TRUE),
         Msg("FINISHED", MkMsg(TLS_MSG_FINISHED, Fill(28, 9)), FALSE),
         Msg("FINISHED", MkMsg(TLS_MSG_FINISHED, Fill(8, 9)), FALSE) }
  \cup { Msg("UNKNOWN", MkMsg(99, << >>), FALSE),
         Msg("UNKNOWN", MkMsg(0, Fill(32, 9)), FALSE) }

\* which pointer argument of a call is absent
ArgModes == {"ok", "null_ctx", "null_buf"}

\* what an out-of-bounds read can find
GarbageBytes == {0, 170}

\* record inputs: length len, bytes seed, seed+1, ...
Pattern(len, seed) == [j \in 1..len |-> (seed + j) % U8]

RecordLens == { BLOCK_LEN * n : n \in 0..MaxBlocks } \cup {8, 24}

RecordInputs == { Pattern(len, 250) : len \in RecordLens }

\* the inputs of a call: every input with all pointers present, and one
\* input with each pointer absent in turn
CallInputs(inputs, probe) ==
  { [in |-> i, arg |-> "ok"] : i \in inputs }
    \cup { [in |-> probe, arg |-> a] : a \in ArgModes \ {"ok"} }

\* a record with one bit inverted, in its first or its last byte
Tampered(w) ==
  IF Len(w) = 0 THEN {}
  ELSE { [w EXCEPT ![pos] = FlipBit(@, bit)] : pos \in {1, Len(w)}, bit \in {0, 7} }

----------------------------------------------------------------------------
(* fips_provider.c *)

FIPS_SUCCESS == 0
FIPS_ERROR_INVALID_PARAM == -1
FIPS_ERROR_SELFTEST_FAILED == -2
FIPS_ERROR_SELFTEST_NOT_PASSED == -3
FIPS_ERROR_ALGORITHM_NOT_APPROVED == -4
FIPS_ERROR_INTEGRITY_CHECK_FAILED == -5

FIPS_SELFTEST_NOT_RUN == 0
FIPS_SELFTEST_PASSED == 1
FIPS_SELFTEST_FAILED == 2

\* a "const char *": the null pointer, or a pointer to the string s
CStr(s) == [null |-> FALSE, s |-> s]

NullStr == [null |-> TRUE, s |-> ""]

fips_approved_algorithms ==
  << "AES-128-CBC", "AES-192-CBC", "AES-256-CBC", "AES-128-GCM",
     "AES-192-GCM", "AES-256-GCM", "SHA-1", "SHA-224",
     "SHA-256", "SHA-384", "SHA-512", "RSA-1024",
     "RSA-2048", "RSA-3072", "RSA-4096", "ECDSA-P256",
     "ECDSA-P384", "ECDSA-P521", "HMAC-SHA1", "HMAC-SHA224",
     "HMAC-SHA256", "HMAC-SHA384", "HMAC-SHA512", "DRBG-CTR-AES128",
     "DRBG-CTR-AES192", "DRBG-CTR-AES256", "DRBG-HASH-SHA1", "DRBG-HASH-SHA224",
     "DRBG-HASH-SHA256", "DRBG-HASH-SHA384", "DRBG-HASH-SHA512", "KDF-HKDF-SHA1",
     "KDF-HKDF-SHA224", "KDF-HKDF-SHA256", "KDF-HKDF-SHA384", "KDF-HKDF-SHA512",
     "KDF-PBKDF2-SHA1", "KDF-PBKDF2-SHA224", "KDF-PBKDF2-SHA256", "KDF-PBKDF2-SHA384",
     "KDF-PBKDF2-SHA512" >>

\* bit k of the exclusive or of the bytes of data: the parity of the number
\* of bytes in which the bit is set
ParityBit(data, k) ==
  Cardinality({ j \in 1..Len(data) : (data[j] \div (2 ^ k)) % 2 = 1 }) % 2

\* bitwise exclusive or of all the bytes of data
XorAll(data) ==
  ParityBit(data, 0) + 2 * ParityBit(data, 1) + 4 * ParityBit(data, 2)
    + 8 * ParityBit(data, 3) + 16 * ParityBit(data, 4) + 32 * ParityBit(data, 5)
    + 64 * ParityBit(data, 6) + 128 * ParityBit(data, 7)

\* bitwise exclusive or of two bytes
Xor(a, b) == XorAll(<< a, b >>)

\* the bytes of a string literal in an array of n bytes, zero filled
StrBytes(chars, n) == [i \in 1..n |-> IF i <= Len(chars) THEN chars[i] ELSE 0]

\* "OpenSSL FIPS Provider"
FIPS_MODULE_NAME ==
  << 79, 112, 101, 110, 83, 83, 76, 32, 70, 73, 80, 83, 32,
     80, 114, 111, 118, 105, 100, 101, 114 >>

\* "FIPS 140-3 #4985"
FIPS_CERTIFICATE_NUMBER ==
  << 70, 73, 80, 83, 32, 49, 52, 48, 45, 51, 32, 35, 52, 57, 56, 53 >>

fips_power_on_test_data == [i \in 1..32 |-> i - 1]

\* 2b 7e 15 16 28 ae d2 a6 ab f7 15 88 09 cf 4f 3c, twice
fips_power_on_test_expected ==
  [i \in 1..32 |->
     << 43, 126, 21, 22, 40, 174, 210, 166, 171, 247, 21, 136, 9, 207, 79, 60 >>
       [((i - 1) % 16) + 1]]

\* the fips_provider_context_t after memset(ctx, 0, ...)
FipsZeroContext ==
  [selftest_status |-> FIPS_SELFTEST_NOT_RUN,
   module_id |-> Zeros(16),
   module_version |-> Zeros(4),
   module_name |-> Zeros(64),
   certificate_number |-> Zeros(32),
   integrity_key |-> Zeros(32),
   integrity_value |-> Zeros(32),
   power_on_selftest_passed |-> 0,
   conditional_selftest_passed |-> 0]

fips_calculate_integrity_value(c) ==
  LET data == c.module_id \o c.module_version \o c.module_name \o c.certificate_number
      all == XorAll(data)
  IN  [c EXCEPT !.integrity_value = [i \in 1..32 |-> Xor(all, i - 1)]]

\* a context with the result of a self-test
FipsOutcome(c, r) == [ctx |-> c, res |-> r]

fips_run_power_on_selftest(c) ==
  LET test_result == [i \in 1..32 |-> Xor(fips_power_on_test_data[i], 43)]
  IN  IF test_result = fips_power_on_test_expected
        THEN FipsOutcome([c EXCEPT !.power_on_selftest_passed = 1], FIPS_SUCCESS)
        ELSE FipsOutcome([c EXCEPT !.power_on_selftest_passed = 0],
                         FIPS_ERROR_SELFTEST_FAILED)

fips_run_conditional_selftest(c) ==
  LET test_data == [i \in 1..16 |-> ((i - 1) * 7 + 13) % U8]
      zero_count == Cardinality({ i \in 1..16 : test_data[i] = 0 })
  IN  IF zero_count < 16
        THEN FipsOutcome([c EXCEPT !.conditional_selftest_passed = 1], FIPS_SUCCESS)
        ELSE FipsOutcome([c EXCEPT !.conditional_selftest_passed = 0],
                         FIPS_ERROR_SELFTEST_FAILED)

\* fips_provider_init; arg says whether the context pointer is absent
fips_provider_init(c, arg) ==
  IF arg # "ok"
    THEN FipsOutcome(c, FIPS_ERROR_INVALID_PARAM)
  ELSE
    LET c1 == [FipsZeroContext EXCEPT
                 !.module_id = [i \in 1..16 |-> i],
                 !.module_version = << 3, 0, 0, 0 >>,
                 !.module_name = StrBytes(FIPS_MODULE_NAME, 64),
                 !.certificate_number = StrBytes(FIPS_CERTIFICATE_NUMBER, 32),
                 !.integrity_key = fips_power_on_test_expected]
        c2 == fips_calculate_integrity_value(c1)
        r1 == fips_run_power_on_selftest(c2)
        r2 == fips_run_conditional_selftest(r1.ctx)
    IN  IF r1.res # FIPS_SUCCESS THEN r1
        ELSE IF r2.res # FIPS_SUCCESS THEN r2
        ELSE FipsOutcome([r2.ctx EXCEPT !.selftest_status = FIPS_SELFTEST_PASSED],
                         FIPS_SUCCESS)

\* fips_is_algorithm_approved with a loop that stops one entry early
fips_is_algorithm_approved_short_loop(algorithm_name) ==
  IF algorithm_name.null
    THEN FIPS_ERROR_INVALID_PARAM
  ELSE IF \E i \in 1..(Len(fips_approved_algorithms) - 1) :
            algorithm_name.s = fips_approved_algorithms[i]
    THEN FIPS_SUCCESS
  ELSE FIPS_ERROR_ALGORITHM_NOT_APPROVED

\* strcmp(a, b) == 0 is equality of the two strings
fips_is_algorithm_approved(algorithm_name) ==
  IF algorithm_name.null
    THEN FIPS_ERROR_INVALID_PARAM
  ELSE IF \E i \in 1..Len(fips_approved_algorithms) :
            algorithm_name.s = fips_approved_algorithms[i]
    THEN FIPS_SUCCESS
  ELSE FIPS_ERROR_ALGORITHM_NOT_APPROVED

fips_run_continuous_selftest(c, arg) ==
  IF arg # "ok"
    THEN FipsOutcome(c, FIPS_ERROR_INVALID_PARAM)
  ELSE IF c.selftest_status # FIPS_SELFTEST_PASSED
    THEN FipsOutcome(c, FIPS_ERROR_SELFTEST_NOT_PASSED)
  ELSE
    LET r == fips_run_conditional_selftest(c)
    IN  IF r.res # FIPS_SUCCESS
          THEN FipsOutcome([r.ctx EXCEPT !.selftest_status = FIPS_SELFTEST_FAILED], r.res)
          ELSE FipsOutcome(r.ctx, FIPS_SUCCESS)

\* strncpy(dest, src, n - 1) and dest[n - 1] = 0 into a char array of n bytes:
\* the characters of src before its first zero byte, then zero bytes
Strncpy(src, n) ==
  [i \in 1..n |-> IF i < n /\ (\A j \in 1..i : src[j] # 0) THEN src[i] ELSE 0]

\* the caller's fips_module_info_t before the call
InfoBefore ==
  [module_id |-> Fill(16, 204),
   module_version |-> Fill(4, 204),
   module_name |-> Fill(64, 204),
   certificate_number |-> Fill(32, 204),
   integrity_value |-> Fill(32, 204)]

\* a context, the result and the caller's fips_module_info_t after a call
FipsInfoOutcome(c, r, out_info) == [ctx |-> c, res |-> r, info |-> out_info]

\* what fips_get_module_info copies out of the context
InfoOf(c) ==
  [module_id |-> c.module_id,
   module_version |-> c.module_version,
   module_name |-> Strncpy(c.module_name, 64),
   certificate_number |-> Strncpy(c.certificate_number, 32),
   integrity_value |-> c.integrity_value]

\* fips_get_module_info that copies before it tests the self-test status
fips_get_module_info_copy_first(c, arg, out_info) ==
  IF arg # "ok"
    THEN FipsInfoOutcome(c, FIPS_ERROR_INVALID_PARAM, out_info)
  ELSE IF c.selftest_status # FIPS_SELFTEST_PASSED
    THEN FipsInfoOutcome(c, FIPS_ERROR_SELFTEST_NOT_PASSED, InfoOf(c))
  ELSE FipsInfoOutcome(c, FIPS_SUCCESS, InfoOf(c))

\* fips_get_module_info; arg says which of the two pointers is absent
fips_get_module_info(c, arg, out_info) ==
  IF arg # "ok"
    THEN FipsInfoOutcome(c, FIPS_ERROR_INVALID_PARAM, out_info)
  ELSE IF c.selftest_status # FIPS_SELFTEST_PASSED
    THEN FipsInfoOutcome(c, FIPS_ERROR_SELFTEST_NOT_PASSED, out_info)
  ELSE FipsInfoOutcome(c, FIPS_SUCCESS, InfoOf(c))

\* fips_verify_module_integrity.  The recomputed value goes into a copy of
\* the context; the array calculated_integrity the stored value is compared
\* with is never written, so what it holds is what the stack held: stack.
fips_verify_module_integrity(c, arg, stack) ==
  IF arg # "ok"
    THEN FipsOutcome(c, FIPS_ERROR_INVALID_PARAM)
  ELSE IF c.selftest_status # FIPS_SELFTEST_PASSED
    THEN FipsOutcome(c, FIPS_ERROR_SELFTEST_NOT_PASSED)
  ELSE
    LET calculated_integrity == stack
        temp_ctx == fips_calculate_integrity_value(c)
    IN  IF c.integrity_value = calculated_integrity
          THEN FipsOutcome(c, FIPS_SUCCESS)
          ELSE FipsOutcome(c, FIPS_ERROR_INTEGRITY_CHECK_FAILED)

fips_get_selftest_status(c, arg) ==
  IF arg # "ok" THEN FIPS_SELFTEST_FAILED ELSE c.selftest_status

\* fips_provider_cleanup that clears the keys and values only
fips_provider_cleanup_keeps_status(c, arg) ==
  IF arg # "ok" THEN c
  ELSE [FipsZeroContext EXCEPT !.selftest_status = c.selftest_status]

fips_provider_cleanup(c, arg) ==
  IF arg # "ok" THEN c ELSE FipsZeroContext

\* what fips_provider_init writes into a context before the self-tests
FipsModuleFields ==
  fips_calculate_integrity_value(
    [FipsZeroContext EXCEPT
       !.module_id = [i \in 1..16 |-> i],
       !.module_version = << 3, 0, 0, 0 >>,
       !.module_name = StrBytes(FIPS_MODULE_NAME, 64),
       !.certificate_number = StrBytes(FIPS_CERTIFICATE_NUMBER, 32),
       !.integrity_key = fips_power_on_test_expected])

\* a fips_provider_context_t the caller has declared and not yet given to
\* fips_provider_init: all zero when it has static storage, and of
\* indeterminate content otherwise.  Of the indeterminate contents these
\* are taken: each self-test status over all-zero fields, over the fields
\* fips_provider_init writes, and over those with another integrity value.
FipsDeclared ==
  { [body EXCEPT !.selftest_status = s] :
      s \in { FIPS_SELFTEST_NOT_RUN, FIPS_SELFTEST_PASSED, FIPS_SELFTEST_FAILED },
      body \in { FipsZeroContext, FipsModuleFields,
                 [FipsModuleFields EXCEPT !.integrity_value = Fill(32, 170)] } }

\* what the stack can hold where calculated_integrity is placed
FipsStacks ==
  { Zeros(32), Fill(32, 170), FipsModuleFields.integrity_value }

\* the names fips_is_algorithm_approved is asked about: every entry of the
\* table, names that differ from an entry in case, by a prefix or by a
\* suffix, names of no entry, the empty string and the null pointer
FipsNames ==
  { CStr(fips_approved_algorithms[i]) : i \in 1..Len(fips_approved_algorithms) }
    \cup { CStr("aes-256-gcm"), CStr("Sha-256"), CStr("AES-256"), CStr("AES-256-GCM "),
           CStr("SHA-2566"), CStr("MD5"), CStr("DES-CBC"), CStr(""), NullStr }

----------------------------------------------------------------------------
(* openssl_cli.c.  A command line is the sequence of its arguments after   *)
(* the program name; an argument is a string, a char pointer that is null  *)
(* is NullStr.  getopt_long is the C library's: it is modelled from its    *)
(* documentation, for arguments that are each one whole option, option     *)
(* argument, "--" or operand.  Each run of openssl_cli_main is a process   *)
(* of its own, so getopt_long starts at argv[1].                           *)

\* the openssl_cli_context_t after "= {0}"
CliZeroContext ==
  [command |-> NullStr, input_file |-> NullStr, output_file |-> NullStr,
   algorithm |-> NullStr, key_file |-> NullStr, cert_file |-> NullStr,
   fips_mode |-> 0, verbose |-> 0, help |-> 0]

\* what getopt_long returns for an argument that is an option, by the
\* option string "hvf:i:o:a:k:c:" and the table long_options: the option
\* character, and whether its argument is the next element of argv
\* ("next"), attached to it ("attached", with the text) or none.  "-in" is
\* the option i with the attached argument "n".  An argument that starts
\* with "-" and is none of these is an unknown option, '?'.
GetoptTable ==
  [tok \in { "-h", "--help", "-v", "--version", "--fips", "-f", "-i", "--in",
             "-o", "--out", "-a", "--algorithm", "-k", "--key", "-c", "--cert",
             "-in", "-z", "--bogus" } |->
     CASE tok \in {"-h", "--help"}    -> [opt |-> "h", arg |-> "none", text |-> ""]
       [] tok \in {"-v", "--version"} -> [opt |-> "v", arg |-> "none", text |-> ""]
       [] tok = "--fips"              -> [opt |-> "f", arg |-> "none", text |-> ""]
       [] tok = "-f"                  -> [opt |-> "f", arg |-> "next", text |-> ""]
       [] tok \in {"-i", "--in"}      -> [opt |-> "i", arg |-> "next", text |-> ""]
       [] tok \in {"-o", "--out"}     -> [opt |-> "o", arg |-> "next", text |-> ""]
       [] tok \in {"-a", "--algorithm"} -> [opt |-> "a", arg |-> "next", text |-> ""]
       [] tok \in {"-k", "--key"}     -> [opt |-> "k", arg |-> "next", text |-> ""]
       [] tok \in {"-c", "--cert"}    -> [opt |-> "c", arg |-> "next", text |-> ""]
       [] tok = "-in"                 -> [opt |-> "i", arg |-> "attached", text |-> "n"]
       [] OTHER                       -> [opt |-> "?", arg |-> "none", text |-> ""]]

\* the switch of parse_arguments: the context after option opt with optarg
SetOption(c, opt, optarg) ==
  CASE opt = "h" -> [c EXCEPT !.help = 1]
    [] opt = "v" -> [c EXCEPT !.verbose = 1]
    [] opt = "f" -> [c EXCEPT !.fips_mode = 1]
    [] opt = "i" -> [c EXCEPT !.input_file = optarg]
    [] opt = "o" -> [c EXCEPT !.output_file = optarg]
    [] opt = "a" -> [c EXCEPT !.algorithm = optarg]
    [] opt = "k" -> [c EXCEPT !.key_file = optarg]
    [] opt = "c" -> [c EXCEPT !.cert_file = optarg]

\* the result of parse_arguments and the context it leaves
Parsed(rc, c) == [rc |-> rc, ctx |-> c]

\* the loop of parse_arguments from argument i on.  first is the first
\* operand passed over so far.  With POSIXLY_CORRECT in the environment
\* (posix) getopt_long stops at the first operand; otherwise it moves the
\* operands behind the options, so that argv[optind] is the first of them.
RECURSIVE ParseFrom(_, _, _, _, _)
ParseFrom(argv, i, c, first, posix) ==
  IF i > Len(argv)
    THEN Parsed(0, [c EXCEPT !.command = first])
  ELSE IF argv[i] = "--"
    THEN Parsed(0, [c EXCEPT !.command =
                      IF ~first.null THEN first
                      ELSE IF i < Len(argv) THEN CStr(argv[i + 1])
                      ELSE NullStr])
  ELSE IF argv[i] \in DOMAIN GetoptTable
    THEN LET o == GetoptTable[argv[i]] IN
           IF o.opt = "?"
             THEN Parsed(0 - 1, c)
           ELSE IF o.arg = "next"
             THEN IF i = Len(argv)
                    THEN Parsed(0 - 1, c)
                    ELSE ParseFrom(argv, i + 2, SetOption(c, o.opt, CStr(argv[i + 1])),
                                   first, posix)
           ELSE ParseFrom(argv, i + 1, SetOption(c, o.opt, CStr(o.text)), first, posix)
  ELSE IF posix
    THEN Parsed(0, [c EXCEPT !.command = CStr(argv[i])])
  ELSE ParseFrom(argv, i + 1, c, IF first.null THEN CStr(argv[i]) ELSE first, posix)

parse_arguments(argv, c, posix) == ParseFrom(argv, 1, c, NullStr, posix)

\* the table command_handlers without its terminating entry
command_handlers ==
  << [name |-> "enc",      handler |-> "handle_enc_command"],
     [name |-> "genrsa",   handler |-> "handle_genrsa_command"],
     [name |-> "gendsa",   handler |-> "handle_genrsa_command"],
     [name |-> "genpkey",  handler |-> "handle_genrsa_command"],
     [name |-> "req",      handler |-> "handle_genrsa_command"],
     [name |-> "x509",     handler |-> "handle_genrsa_command"],
     [name |-> "s_client", handler |-> "handle_s_client_command"],
     [name |-> "s_server", handler |-> "handle_s_server_command"],
     [name |-> "fips",     handler |-> "handle_fips_command"],
     [name |-> "version",  handler |-> "handle_version_command"] >>

\* find_command_handler with a loop that starts at the second entry
find_command_handler_from_second(command) ==
  LET hits == { i \in 2..Len(command_handlers) : command_handlers[i].name = command }
  IN  IF hits = {} THEN 0
      ELSE CHOOSE i \in hits : \A j \in hits : i <= j

\* find_command_handler: the index of the first entry with the name, 0 for
\* the null pointer
find_command_handler(command) ==
  LET hits == { i \in 1..Len(command_handlers) : command_handlers[i].name = command }
  IN  IF hits = {} THEN 0
      ELSE CHOOSE i \in hits : \A j \in hits : i <= j

\* what a handler returns: each of the six prints and returns 0
HandlerResult(handler, c) == 0

\* what a run leaves: the return value, the handlers run in order, whether
\* print_help ran, the message on stderr, and the parse result and context
CliRun(ret, ran, help, err, p) ==
  [ret |-> ret, ran |-> ran, help |-> help, err |-> err, rc |-> p.rc, ctx |-> p.ctx]

openssl_cli_main(argv, posix) ==
  LET p == parse_arguments(argv, CliZeroContext, posix) IN
    IF p.rc # 0
      THEN CliRun(1, << >>, FALSE, "Error parsing arguments", p)
    ELSE IF p.ctx.help # 0 \/ p.ctx.command.null
      THEN CliRun(0, << >>, TRUE, "", p)
    ELSE
      LET handler == find_command_handler(p.ctx.command.s) IN
        IF handler = 0
          THEN CliRun(1, << >>, FALSE, "Unknown command", p)
        ELSE
          LET h == command_handlers[handler].handler
              result == HandlerResult(h, p.ctx)
          IN  IF result # 0
                THEN CliRun(result, << h >>, FALSE, "Command failed", p)
                ELSE CliRun(0, << h >>, FALSE, "", p)

\* the arguments command lines are made of
CliTokens ==
  { "-h", "--help", "-v", "--fips", "-f", "-in", "-z", "--",
    "enc", "gendsa", "version", "frobnicate" }

RECURSIVE SeqsUpTo(_, _)
SeqsUpTo(S, n) ==
  IF n = 0 THEN { << >> }
  ELSE LET shorter == SeqsUpTo(S, n - 1)
       IN  shorter \cup { Append(s, x) : s \in { q \in shorter : Len(q) = n - 1 }, x \in S }

CliArgvs == SeqsUpTo(CliTokens, MaxArgs)

NoCli ==
  [op |-> "none", argv |-> << >>, posix |-> FALSE,
   run |-> CliRun(0, << >>, FALSE, "", Parsed(0, CliZeroContext))]

----------------------------------------------------------------------------
(* State *)

VARIABLES
  ctx,       \* the tls1_3_context_t
  aes,       \* the aes_context_t behind ctx.aes_ctx
  heap,      \* the heap objects behind the four handles
  crashed,   \* the process died in an out-of-bounds read
  lastOp,    \* the call that produced this state
  lastArg,   \* its ArgModes value
  lastMsg,   \* its input message or record
  lastRes,   \* its result
  provFail,  \* whether a provider call was made to fail in it
  pre,       \* the context before it
  out,       \* what a record call wrote: buffer, length, block transforms
  hs,        \* how many messages of the well-formed handshake, and nothing
             \* else, have been processed since init (-1: something else)
  hsOk,      \* whether each of them returned TLS_SUCCESS
  sent,      \* the plaintext of the last successful encrypt
  wire,      \* the record it produced
  tampered,  \* whether the last decrypt input was a Tampered(wire)
  kdf,       \* two shared secrets and what the key schedule made of them
  peer,      \* a second, independent context and the bookkeeping of the pair
  cu,        \* the last call of the crypto_utils functions
  fips,      \* the FIPS provider context and the last call on it
  cli        \* the last run of openssl_cli_main

vars == << ctx, aes, heap, crashed, lastOp, lastArg, lastMsg, lastRes, provFail,
           pre, out, hs, hsOk, sent, wire, tampered, kdf, peer, cu, fips, cli >>

\* the variables outside the single TLS context
aux == << peer, cu, fips, cli >>

NoMsg == Msg("NONE", << >>, FALSE)

NoOut == [buf |-> << >>, len |-> 0 - 1, calls |-> 0]

\* a context with its AES content
Slot(c, a) == [ctx |-> c, aes |-> a]

NoPeer ==
  [B |-> Slot(ZeroContext, AesFresh), preB |-> Slot(ZeroContext, AesFresh),
   solo |-> Slot(ZeroContext, AesFresh), on |-> "none", res |-> 0, soloRes |-> 0]

NoCall ==
  [op |-> "none", plaintext |-> << >>, key |-> << >>, iv |-> << >>, enc |-> << >>,
   input |-> << >>, dkey |-> << >>, failAt |-> 0,
   ret |-> [str |-> << >>, thrown |-> FALSE, calls |-> 0],
   code |-> 0, exit |-> "none"]

NoFips ==
  [ctx |-> FipsZeroContext, pre |-> FipsZeroContext, op |-> "none",
   arg |-> "ok", name |-> NullStr, res |-> 0,
   info |-> InfoBefore, stack |-> Zeros(32)]

NoKdf == [ss1 |-> << >>, ss2 |-> << >>, run |-> FALSE, out1 |-> << >>, out2 |-> << >>]

MallocOutcomes == [HandleNames -> BOOLEAN]

\* the state in which tls1_3_init(mallocOk) leaves a context
AfterInit(mallocOk) ==
  LET r == tls1_3_init(mallocOk) IN
    /\ ctx = r.life.ctx
    /\ aes = r.life.aes
    /\ heap = r.life.heap
    /\ crashed = FALSE
    /\ lastOp = "init"
    /\ lastArg = "ok"
    /\ lastMsg = NoMsg
    /\ lastRes = r.res
    /\ provFail = FALSE
    /\ pre = ZeroContext
    /\ out = NoOut
    /\ hs = IF r.res = TLS_SUCCESS THEN 0 ELSE 0 - 1
    /\ hsOk = TRUE
    /\ sent = << >>
    /\ wire = << >>
    /\ tampered = FALSE
    /\ kdf = NoKdf
    /\ peer = NoPeer
    /\ cu = NoCall
    /\ fips = NoFips
    /\ cli = NoCli

Init == \E mallocOk \in MallocOutcomes : AfterInit(mallocOk)

----------------------------------------------------------------------------
(* Actions *)

\* the message that continues the well-formed handshake after n messages
NextOfHandshake(n, m) ==
  /\ m.wf
  /\ m.kind = CASE n = 0 -> "CLIENT_HELLO"
                [] n = 1 -> "SERVER_HELLO"
                [] n = 2 -> "CHANGE_CIPHER_SPEC"
                [] n = 3 -> "FINISHED"
                [] OTHER -> "NONE"

\* The caller uses a context only after an init that returned TLS_SUCCESS;
\* after a failed init it may clean up or init again.  (A context whose
\* init failed has the same content as a cleaned-up one, which is used.)
InitFailed == \E h \in HandleNames : heap[h].st = "none"

\* tls1_3_init on a context that holds no handle (after cleanup or a failed init)
Tls13Init ==
  /\ ~crashed
  /\ \A h \in HandleNames : ctx[h] = NULL
  /\ \E mallocOk \in MallocOutcomes :
       LET r == tls1_3_init(mallocOk) IN
         /\ ctx' = r.life.ctx
         /\ aes' = r.life.aes
         /\ heap' = r.life.heap
         /\ lastOp' = "init"
         /\ lastArg' = "ok"
         /\ lastMsg' = NoMsg
         /\ lastRes' = r.res
         /\ provFail' = FALSE
         /\ pre' = ctx
         /\ out' = NoOut
         /\ hs' = IF r.res = TLS_SUCCESS THEN 0 ELSE 0 - 1
         /\ hsOk' = TRUE
         /\ sent' = << >>
         /\ wire' = << >>
         /\ tampered' = FALSE
         /\ UNCHANGED << crashed, kdf, aux >>

ProcessHandshake ==
  /\ ~crashed
  /\ ~InitFailed
  /\ \E call \in CallInputs(Messages, NoMsg) :
       \E h \in Dispatch(call.in.data) :
         LET m == call.in
             arg == call.arg
             r0 == tls1_3_process_handshake(ctx, aes, m.data, arg, h, 0, TRUE)
         IN
         \E g \in IF r0.oob THEN GarbageBytes ELSE {0},
            ok \in IF r0.prov THEN BOOLEAN ELSE {TRUE} :
           LET r == tls1_3_process_handshake(ctx, aes, m.data, arg, h, g, ok) IN
             /\ lastArg' = arg
             /\ lastMsg' = m
             /\ provFail' = ~ok
             /\ pre' = ctx
             /\ out' = NoOut
             /\ tampered' = FALSE
             /\ UNCHANGED << heap, sent, wire, kdf, aux >>
             /\ \/ /\ ctx' = r.ctx
                   /\ aes' = r.aes
                   /\ lastOp' = "process"
                   /\ lastRes' = r.res
                   /\ hs' = IF hs >= 0 /\ arg = "ok" /\ ok /\ NextOfHandshake(hs, m)
                              THEN hs + 1 ELSE 0 - 1
                   /\ hsOk' = (hs' >= 0 => (hsOk /\ r.res = TLS_SUCCESS))
                   /\ UNCHANGED crashed
                \/ /\ r.oob
                   /\ crashed' = TRUE
                   /\ lastOp' = "crash"
                   /\ hs' = 0 - 1
                   /\ hsOk' = TRUE
                   /\ UNCHANGED << ctx, aes, lastRes >>

EncryptData ==
  /\ ~crashed
  /\ ~InitFailed
  /\ Low64(ctx.sequence_number) < MaxSeq
  /\ \E call \in CallInputs(RecordInputs, << >>), failAt \in 0..MaxBlocks :
       LET p == call.in
           arg == call.arg
           r == tls1_3_encrypt_data(ctx, aes, p, arg, failAt)
       IN
         /\ failAt = 0 \/ (r.res = TLS_ERROR_CRYPTO_FAILURE /\ r.calls = failAt)
         /\ ctx' = r.ctx
         /\ lastOp' = "encrypt"
         /\ lastArg' = arg
         /\ lastMsg' = Msg("RECORD", p, Len(p) > 0 /\ Len(p) % BLOCK_LEN = 0)
         /\ lastRes' = r.res
         /\ provFail' = (failAt # 0)
         /\ pre' = ctx
         /\ out' = [buf |-> r.out, len |-> r.outlen, calls |-> r.calls]
         /\ hs' = 0 - 1
         /\ hsOk' = TRUE
         /\ sent' = IF r.res = TLS_SUCCESS THEN p ELSE sent
         /\ wire' = IF r.res = TLS_SUCCESS THEN r.out ELSE wire
         /\ tampered' = FALSE
         /\ UNCHANGED << aes, heap, crashed, kdf, aux >>

DecryptData ==
  /\ ~crashed
  /\ ~InitFailed
  /\ Low64(ctx.sequence_number) < MaxSeq
  /\ \E call \in CallInputs(RecordInputs \cup {wire} \cup Tampered(wire), << >>),
        failAt \in 0..MaxBlocks :
       LET c == call.in
           arg == call.arg
           r == tls1_3_decrypt_data(ctx, aes, c, arg, failAt)
       IN
         /\ failAt = 0 \/ (r.res = TLS_ERROR_CRYPTO_FAILURE /\ r.calls = failAt)
         /\ ctx' = r.ctx
         /\ lastOp' = "decrypt"
         /\ lastArg' = arg
         /\ lastMsg' = Msg("RECORD", c, Len(c) > 0 /\ Len(c) % BLOCK_LEN = 0)
         /\ lastRes' = r.res
         /\ provFail' = (failAt # 0)
         /\ pre' = ctx
         /\ out' = [buf |-> r.out, len |-> r.outlen, calls |-> r.calls]
         /\ hs' = 0 - 1
         /\ hsOk' = TRUE
         /\ tampered' = (arg = "ok" /\ c \in Tampered(wire))
         /\ UNCHANGED << aes, heap, crashed, sent, wire, kdf, aux >>

GetState ==
  /\ ~crashed
  /\ ~InitFailed
  /\ \E arg \in {"ok", "null_ctx"} :
       /\ lastOp' = "get_state"
       /\ lastArg' = arg
       /\ lastMsg' = NoMsg
       /\ lastRes' = tls1_3_get_state(ctx, arg)
       /\ provFail' = FALSE
       /\ pre' = ctx
       /\ out' = NoOut
       /\ tampered' = FALSE
       /\ UNCHANGED << ctx, aes, heap, crashed, hs, hsOk, sent, wire, kdf, aux >>

Cleanup ==
  /\ ~crashed
  /\ LET r == tls1_3_cleanup(ctx, heap, aes) IN
       /\ ctx' = r.ctx
       /\ aes' = r.aes
       /\ heap' = r.heap
       /\ lastOp' = "cleanup"
       /\ lastArg' = "ok"
       /\ lastMsg' = NoMsg
       /\ lastRes' = TLS_SUCCESS
       /\ provFail' = FALSE
       /\ pre' = ctx
       /\ out' = NoOut
       /\ hs' = 0 - 1
       /\ sent' = << >>
       /\ wire' = << >>
       /\ hsOk' = TRUE
       /\ tampered' = FALSE
       /\ UNCHANGED << crashed, kdf, aux >>

Next ==
  \/ Tls13Init
  \/ ProcessHandshake
  \/ EncryptData
  \/ DecryptData
  \/ GetState
  \/ Cleanup

Spec == Init /\ [][Next]_vars

----------------------------------------------------------------------------
(* The record layer and the later handshake states.  No message sent       *)
(* through tls1_3_process_handshake takes a context out of                 *)
(* CHANGE_CIPHER_SPEC (see C1), so the states FINISHED and                 *)
(* APPLICATION_DATA are produced here by calling the four static handlers  *)
(* one after the other, each with an input its own checks accept.          *)

\* the context and AES content after the first n handlers have succeeded
RECURSIVE HandlerStage(_)
HandlerStage(n) ==
  IF n = 0
    THEN LET r == tls1_3_init([h \in HandleNames |-> TRUE])
         IN  Outcome(r.life.ctx, r.life.aes, r.res, FALSE, FALSE)
  ELSE LET p == HandlerStage(n - 1) IN
    CASE n = 1 -> tls_process_client_hello(p.ctx, p.aes,
                     MkMsg(TLS_MSG_CLIENT_HELLO, ClientRandomDemo), 0, TRUE)
      [] n = 2 -> tls_process_server_hello(p.ctx, p.aes,
                     MkMsg(TLS_MSG_SERVER_HELLO, ServerRandomDemo), 0, TRUE)
      [] n = 3 -> tls_process_change_cipher_spec(p.ctx, p.aes, << 1 >>, 0, TRUE)
      [] n = 4 -> tls_process_finished(p.ctx, p.aes, Fill(32, 9), 0, TRUE)

InitRecord ==
  \E n \in 0..4 :
    /\ ctx = HandlerStage(n).ctx
    /\ aes = HandlerStage(n).aes
    /\ heap = [h \in HandleNames |-> LiveObject]
    /\ crashed = FALSE
    /\ lastOp = "handlers"
    /\ lastArg = "ok"
    /\ lastMsg = NoMsg
    /\ lastRes = HandlerStage(n).res
    /\ provFail = FALSE
    /\ pre = ctx
    /\ out = NoOut
    /\ hs = 0 - 1
    /\ hsOk = TRUE
    /\ sent = << >>
    /\ wire = << >>
    /\ tampered = FALSE
    /\ kdf = NoKdf
    /\ peer = NoPeer
    /\ cu = NoCall
    /\ fips = NoFips
    /\ cli = NoCli

SpecRecord == InitRecord /\ [][Next]_vars

----------------------------------------------------------------------------
(* The CHANGE_CIPHER_SPEC step.  The dispatcher never lets                 *)
(* tls_process_change_cipher_spec past its flag test (see C1), so its key  *)
(* derivation and its aes_init are exercised by calling the handler        *)
(* itself, with the one-byte payload as its data.                          *)

ChangeCipherSpecPayloads == { << 1 >>, << 0 >>, << >> }

CallChangeCipherSpec ==
  /\ ~crashed
  /\ ~InitFailed
  /\ \E data \in ChangeCipherSpecPayloads, ok \in BOOLEAN :
       LET r == tls_process_change_cipher_spec(ctx, aes, data, 0, ok) IN
         /\ ok \/ (r.prov /\ ctx.aes_ctx # NULL)
         /\ ctx' = r.ctx
         /\ aes' = r.aes
         /\ lastOp' = "handler"
         /\ lastArg' = "ok"
         /\ lastMsg' = Msg("CHANGE_CIPHER_SPEC", data, data = << 1 >>)
         /\ lastRes' = r.res
         /\ provFail' = ~ok
         /\ pre' = ctx
         /\ out' = NoOut
         /\ hs' = 0 - 1
         /\ hsOk' = TRUE
         /\ tampered' = FALSE
         /\ UNCHANGED << heap, crashed, sent, wire, kdf, aux >>

NextHandlers == Next \/ CallChangeCipherSpec

SpecHandlers == Init /\ [][NextHandlers]_vars

----------------------------------------------------------------------------
(* The key schedule as a function of the shared secret *)

\* shared secrets of several lengths: all-zero, and all-zero but for the
\* first or the last byte
SecretLens == {1, 32, MASTER_LEN, MASTER_LEN + 1}

SharedSecrets ==
  UNION { { Zeros(n), [Zeros(n) EXCEPT ![1] = 1], [Zeros(n) EXCEPT ![n] = 2] } : n \in SecretLens }

\* master secret and traffic values derived from the shared secret ss
KeySchedule(ss) ==
  LET c == tls_derive_traffic_keys(
             [ZeroContext EXCEPT !.master_secret = tls_derive_master_secret(ss)])
  IN  << c.master_secret, c.client_write_key, c.server_write_key,
         c.client_write_iv, c.server_write_iv >>

InitKeys == AfterInit([h \in HandleNames |-> TRUE])

DrawSecrets ==
  /\ ~kdf.run
  /\ \E s1 \in SharedSecrets, s2 \in SharedSecrets :
       kdf' = [NoKdf EXCEPT !.ss1 = s1, !.ss2 = s2]
  /\ UNCHANGED << ctx, aes, heap, crashed, lastOp, lastArg, lastMsg, lastRes,
                  provFail, pre, out, hs, hsOk, sent, wire, tampered, aux >>

DeriveKeys ==
  /\ ~kdf.run
  /\ Len(kdf.ss1) > 0
  /\ kdf' = [kdf EXCEPT !.run = TRUE,
                        !.out1 = KeySchedule(kdf.ss1),
                        !.out2 = KeySchedule(kdf.ss2)]
  /\ UNCHANGED << ctx, aes, heap, crashed, lastOp, lastArg, lastMsg, lastRes,
                  provFail, pre, out, hs, hsOk, sent, wire, tampered, aux >>

NextKeys == DrawSecrets \/ DeriveKeys

SpecKeys == InitKeys /\ [][NextKeys]_vars

----------------------------------------------------------------------------
(* Two contexts.  Every function takes the context it works on as a        *)
(* pointer, the file has no object of static storage duration that is      *)
(* written, and tls1_3_init gives each context provider objects of its     *)
(* own.  mem maps a context's name to its content; a call on one context   *)
(* is a call with that context's pointer.                                  *)

ContextNames == {"A", "B"}

\* the messages and records the calls on a pair are made with
PairMessages ==
  { m \in Messages : m.wf \/ m.kind = "UNKNOWN" }

PairCalls ==
       { [op |-> "process", data |-> m.data, h |-> h] :
           m \in PairMessages, h \in {"default", "client_hello", "server_hello",
                                      "change_cipher_spec", "finished"} }
  \cup { [op |-> o, data |-> Pattern(BLOCK_LEN, 250), h |-> "none"] : o \in {"encrypt", "decrypt"} }

\* one call of a public function on the context c
RunCall(c, a, call) ==
  CASE call.op = "process" ->
         LET r == tls1_3_process_handshake(c, a, call.data, "ok", call.h, 0, TRUE)
         IN  [slot |-> Slot(r.ctx, r.aes), res |-> r.res]
    [] call.op = "encrypt" ->
         LET r == tls1_3_encrypt_data(c, a, call.data, "ok", 0)
         IN  [slot |-> Slot(r.ctx, a), res |-> r.res]
    [] call.op = "decrypt" ->
         LET r == tls1_3_decrypt_data(c, a, call.data, "ok", 0)
         IN  [slot |-> Slot(r.ctx, a), res |-> r.res]

\* CallOn with one AES object behind the aes_ctx pointer of every context
CallOn_shared_aes(mem, id, call) ==
  LET r == RunCall(mem[id].ctx, mem[id].aes, call)
  IN  [mem |-> [n \in ContextNames |->
                  IF n = id THEN r.slot ELSE Slot(mem[n].ctx, r.slot.aes)],
       res |-> r.res]

\* the call made with the pointer to context id
CallOn(mem, id, call) ==
  LET r == RunCall(mem[id].ctx, mem[id].aes, call)
  IN  [mem |-> [mem EXCEPT ![id] = r.slot], res |-> r.res]

\* context A is ctx with aes, context B is peer.B; peer.solo is context A
\* as it is when the calls on B are left out
InitPair ==
  \E n \in 0..4, k \in 0..4 :
    /\ ctx = HandlerStage(n).ctx
    /\ aes = HandlerStage(n).aes
    /\ heap = [h \in HandleNames |-> LiveObject]
    /\ crashed = FALSE
    /\ lastOp = "handlers"
    /\ lastArg = "ok"
    /\ lastMsg = NoMsg
    /\ lastRes = TLS_SUCCESS
    /\ provFail = FALSE
    /\ pre = ZeroContext
    /\ out = NoOut
    /\ hs = 0 - 1
    /\ hsOk = TRUE
    /\ sent = << >>
    /\ wire = << >>
    /\ tampered = FALSE
    /\ kdf = NoKdf
    /\ cu = NoCall
    /\ fips = NoFips
    /\ cli = NoCli
    /\ peer = [NoPeer EXCEPT !.B = Slot(HandlerStage(k).ctx, HandlerStage(k).aes),
                             !.preB = Slot(HandlerStage(k).ctx, HandlerStage(k).aes),
                             !.solo = Slot(HandlerStage(n).ctx, HandlerStage(n).aes)]

\* the records of the pair that leave the shared bookkeeping of the single
\* context alone
PairFrame ==
  UNCHANGED << heap, crashed, lastOp, lastArg, lastMsg, lastRes, provFail, pre,
               out, hs, hsOk, sent, wire, tampered, kdf, cu, fips, cli >>

CallOnA ==
  /\ Low64(ctx.sequence_number) < MaxSeq
  /\ \E call \in PairCalls :
       /\ call.op = "process" => call.h \in Dispatch(call.data)
       /\ LET mem == [n \in ContextNames |-> IF n = "A" THEN Slot(ctx, aes) ELSE peer.B]
              r == CallOn(mem, "A", call)
              alone == CallOn([mem EXCEPT !["A"] = peer.solo], "A", call)
          IN  /\ ctx' = r.mem["A"].ctx
              /\ aes' = r.mem["A"].aes
              /\ peer' = [B |-> r.mem["B"], preB |-> peer.B, solo |-> alone.mem["A"],
                          on |-> "A", res |-> r.res, soloRes |-> alone.res]
  /\ PairFrame

CallOnB ==
  /\ Low64(peer.B.ctx.sequence_number) < MaxSeq
  /\ \E call \in PairCalls :
       /\ call.op = "process" => call.h \in Dispatch(call.data)
       /\ LET mem == [n \in ContextNames |-> IF n = "A" THEN Slot(ctx, aes) ELSE peer.B]
              r == CallOn(mem, "B", call)
          IN  /\ ctx' = r.mem["A"].ctx
              /\ aes' = r.mem["A"].aes
              /\ peer' = [peer EXCEPT !.B = r.mem["B"], !.preB = peer.B,
                                      !.on = "B", !.res = r.res]
  /\ PairFrame

NextPair == CallOnA \/ CallOnB

SpecPair == InitPair /\ [][NextPair]_vars

----------------------------------------------------------------------------
(* crypto_utils.cpp.  A std::string is the sequence of its bytes; a hex     *)
(* string is a sequence of characters, each the value 0..15 of the hex      *)
(* digit it is, or NotHex for any other character.  The EVP cipher is       *)
(* OpenSSL's; what is modelled of it is that AES-256-GCM is a stream        *)
(* cipher under (key, iv) with a 16-byte tag over the ciphertext.           *)

AES256_KEY_LEN == 32
GCM_IV_LEN == 12
GCM_TAG_LEN == 16
HEX == 16

\* a character that is no hex digit
NotHex == HEX

\* EVP_EncryptUpdate / EVP_DecryptUpdate: byte i moved by the key stream
GcmStream(key, iv, i) ==
  key[((i - 1) % AES256_KEY_LEN) + 1] + iv[((i - 1) % GCM_IV_LEN) + 1]

GcmEncrypt(key, iv, p) == [i \in 1..Len(p) |-> (p[i] + GcmStream(key, iv, i)) % U8]

GcmDecrypt(key, iv, c) ==
  [i \in 1..Len(c) |-> (c[i] + 2 * U8 - GcmStream(key, iv, i)) % U8]

\* EVP_CTRL_GCM_GET_TAG: the tag of ciphertext c under (key, iv)
GcmTag(key, iv, c) ==
  [j \in 1..GCM_TAG_LEN |->
     (key[j] + iv[((j - 1) % GCM_IV_LEN) + 1] + Len(c)
        + (IF Len(c) = 0 THEN 0 ELSE c[((j - 1) % Len(c)) + 1] * j)) % U8]

\* "ss << std::hex << std::setfill('0') << std::setw(2) << int" per byte,
\* with the digits of a byte in the other order
ToHex_low_digit_first(bytes) ==
  [j \in 1..(2 * Len(bytes)) |->
     IF j % 2 = 1 THEN bytes[(j + 1) \div 2] % HEX
                  ELSE bytes[j \div 2] \div HEX]

\* "ss << std::hex << std::setfill('0') << std::setw(2) << int" per byte
ToHex(bytes) ==
  [j \in 1..(2 * Len(bytes)) |->
     IF j % 2 = 1 THEN bytes[(j + 1) \div 2] \div HEX
                  ELSE bytes[j \div 2] % HEX]

\* std::stoi(s, nullptr, 16) of a substring of one or two characters: it
\* stops at the first character that is no digit
Stoi16(s) ==
  IF Len(s) = 2 /\ s[2] # NotHex THEN s[1] * HEX + s[2] ELSE s[1]

\* std::stoi throws std::invalid_argument when no digit can be converted
StoiThrows(s) == s[1] = NotHex

\* the substrings substr(i, 2) for i = 0, 2, 4, ...
HexPairs(h) ==
  [k \in 1..((Len(h) + 1) \div 2) |->
     SubSeq(h, 2 * k - 1, IF 2 * k <= Len(h) THEN 2 * k ELSE Len(h))]

\* what a call returns: the string, whether an exception left the function
\* instead, and the number of OpenSSL calls made
Returned(str, thrown, calls) == [str |-> str, thrown |-> thrown, calls |-> calls]

\* the OpenSSL calls of encrypt_aes256_gcm in order: EVP_CIPHER_CTX_new,
\* RAND_bytes, EVP_EncryptInit_ex, EVP_EncryptUpdate, EVP_EncryptFinal_ex,
\* EVP_CIPHER_CTX_ctrl(GET_TAG); failAt is the call that fails, 0 for none,
\* iv is what RAND_bytes delivers
EncryptCalls == 6

encrypt_aes256_gcm(plaintext, key, iv, failAt) ==
  IF Len(key) # 32
    THEN Returned(<< >>, FALSE, 0)
  ELSE IF failAt \in 1..EncryptCalls
    THEN Returned(<< >>, FALSE, failAt)
  ELSE
    LET ciphertext == GcmEncrypt(key, iv, plaintext)
        tag == GcmTag(key, iv, ciphertext)
    IN  Returned(ToHex(iv \o ciphertext \o tag), FALSE, EncryptCalls)

\* the OpenSSL calls of decrypt_aes256_gcm in order: EVP_CIPHER_CTX_new,
\* EVP_DecryptInit_ex, EVP_DecryptUpdate, EVP_CIPHER_CTX_ctrl(SET_TAG),
\* EVP_DecryptFinal_ex, which fails when the tag does not match
DecryptCalls == 5

\* decrypt_aes256_gcm without its first test
decrypt_aes256_gcm_unchecked(ciphertext, key, failAt) ==
  IF failAt = 1
    THEN Returned(<< >>, FALSE, 1)
  ELSE IF \E k \in 1..Len(HexPairs(ciphertext)) : StoiThrows(HexPairs(ciphertext)[k])
    THEN Returned(<< >>, TRUE, 1)
  ELSE
    LET data == [k \in 1..Len(HexPairs(ciphertext)) |-> Stoi16(HexPairs(ciphertext)[k])]
    IN  IF Len(data) < 28
          THEN Returned(<< >>, FALSE, 1)
        ELSE
          LET iv == SubSeq(data, 1, 12)
              encrypted_data == SubSeq(data, 13, Len(data) - 16)
              tag == SubSeq(data, Len(data) - 15, Len(data))
              k32 == [i \in 1..AES256_KEY_LEN |-> IF i <= Len(key) THEN key[i] ELSE 0]
          IN  IF failAt \in 2..(DecryptCalls - 1)
                THEN Returned(<< >>, FALSE, failAt)
              ELSE IF failAt = DecryptCalls \/ tag # GcmTag(k32, iv, encrypted_data)
                THEN Returned(<< >>, FALSE, DecryptCalls)
              ELSE Returned(GcmDecrypt(k32, iv, encrypted_data), FALSE, DecryptCalls)

decrypt_aes256_gcm(ciphertext, key, failAt) ==
  IF Len(key) # 32 \/ Len(ciphertext) < 56
    THEN Returned(<< >>, FALSE, 0)
  ELSE IF failAt = 1
    THEN Returned(<< >>, FALSE, 1)
  ELSE IF \E k \in 1..Len(HexPairs(ciphertext)) : StoiThrows(HexPairs(ciphertext)[k])
    THEN Returned(<< >>, TRUE, 1)
  ELSE
    LET data == [k \in 1..Len(HexPairs(ciphertext)) |-> Stoi16(HexPairs(ciphertext)[k])]
    IN  IF Len(data) < 28
          THEN Returned(<< >>, FALSE, 1)
        ELSE
          LET iv == SubSeq(data, 1, 12)
              encrypted_data == SubSeq(data, 13, Len(data) - 16)
              tag == SubSeq(data, Len(data) - 15, Len(data))
          IN  IF failAt \in 2..(DecryptCalls - 1)
                THEN Returned(<< >>, FALSE, failAt)
              ELSE IF failAt = DecryptCalls \/ tag # GcmTag(key, iv, encrypted_data)
                THEN Returned(<< >>, FALSE, DecryptCalls)
              ELSE Returned(GcmDecrypt(key, iv, encrypted_data), FALSE, DecryptCalls)

\* "Hello, OpenSSL!" and "secret_key_32_bytes_long_12345", the plaintext
\* and the key of main
MainPlaintext ==
  << 72, 101, 108, 108, 111, 44, 32, 79, 112, 101, 110, 83, 83, 76, 33 >>

MainKey ==
  << 115, 101, 99, 114, 101, 116, 95, 107, 101, 121, 95, 51, 50, 95, 98, 121,
     116, 101, 115, 95, 108, 111, 110, 103, 95, 49, 50, 51, 52, 53 >>

\* what a run of main ends with: its return value and the place it left at
Exit(code, exit) == [code |-> code, exit |-> exit]

\* main: randOk is whether its own RAND_bytes call succeeds, iv what the
\* RAND_bytes of encrypt_aes256_gcm delivers, encFail and decFail the OpenSSL
\* call that fails in the two functions (0 for none).  An exception that
\* leaves decrypt_aes256_gcm is caught nowhere and ends the process.
main(randOk, iv, encFail, decFail) ==
  IF ~randOk
    THEN Exit(1, "Failed to generate random bytes")
  ELSE
    LET plaintext == MainPlaintext
        encrypted == encrypt_aes256_gcm(plaintext, MainKey, iv, encFail)
    IN  IF encrypted.str = << >>
          THEN Exit(1, "Encryption failed")
        ELSE
          LET decrypted == decrypt_aes256_gcm(encrypted.str, MainKey, decFail)
          IN  IF decrypted.thrown
                THEN Exit(134, "terminate")
              ELSE IF decrypted.str # plaintext
                THEN Exit(1, "Decryption failed")
              ELSE Exit(0, "return 0")

Plaintexts == { << >>, << 72 >>, << 0, 255 >>, Pattern(BLOCK_LEN, 250), MainPlaintext }

UtilKeys ==
  { Fill(AES256_KEY_LEN, 1), Pattern(AES256_KEY_LEN, 7),
    Fill(AES256_KEY_LEN - 1, 1), Fill(AES256_KEY_LEN + 1, 1), << >>, MainKey }

\* what RAND_bytes can deliver for the IV
UtilIvs == { Zeros(GCM_IV_LEN), Pattern(GCM_IV_LEN, 200) }

\* the minimum length of a hex string with an IV and a tag
MinHexLen == 2 * (GCM_IV_LEN + GCM_TAG_LEN)

\* the strings decrypt is called with after an encrypt that returned enc:
\* enc itself, enc cut short, enc with a digit changed or replaced by a
\* character that is no digit, and strings of zeros
DecryptInputs(enc) ==
  { enc, << >>, [j \in 1..(MinHexLen - 1) |-> 0], [j \in 1..MinHexLen |-> 0] }
  \cup (IF Len(enc) < MinHexLen THEN {}
        ELSE { SubSeq(enc, 1, MinHexLen - 1),
               [enc EXCEPT ![1] = (@ + 1) % HEX],
               [enc EXCEPT ![Len(enc)] = (@ + 1) % HEX],
               [enc EXCEPT ![1] = NotHex],
               [enc EXCEPT ![2] = NotHex] })

\* the variables of the TLS context, which crypto_utils.cpp does not touch
tlsVars ==
  << ctx, aes, heap, crashed, lastOp, lastArg, lastMsg, lastRes, provFail,
     pre, out, hs, hsOk, sent, wire, tampered, kdf, peer >>

InitUtils == AfterInit([h \in HandleNames |-> TRUE])

\* the caller picks a plaintext and a key
DrawCall ==
  /\ cu.op = "none"
  /\ \E p \in Plaintexts, k \in UtilKeys :
       cu' = [NoCall EXCEPT !.op = "draw", !.plaintext = p, !.key = k]
  /\ UNCHANGED << tlsVars, fips, cli >>

EncryptUtil ==
  /\ cu.op = "draw"
  /\ \E iv \in UtilIvs, failAt \in 0..EncryptCalls :
       LET r == encrypt_aes256_gcm(cu.plaintext, cu.key, iv, failAt) IN
         /\ failAt = 0 \/ r.calls = failAt
         /\ failAt = 2 => iv = Zeros(GCM_IV_LEN)
         /\ cu' = [cu EXCEPT !.op = "encrypt", !.iv = iv, !.enc = r.str,
                             !.input = cu.plaintext, !.dkey = cu.key,
                             !.failAt = failAt, !.ret = r]
  /\ UNCHANGED << tlsVars, fips, cli >>

DecryptUtil ==
  /\ cu.op = "encrypt"
  /\ \E h \in DecryptInputs(cu.enc), k \in {cu.key, Fill(AES256_KEY_LEN, 2)},
        failAt \in 0..DecryptCalls :
       LET r == decrypt_aes256_gcm(h, k, failAt) IN
         /\ failAt = 0 \/ (r.calls = failAt /\ ~r.thrown)
         /\ cu' = [cu EXCEPT !.op = "decrypt", !.input = h, !.dkey = k,
                             !.failAt = failAt, !.ret = r]
  /\ UNCHANGED << tlsVars, fips, cli >>

\* a run of the example program
RunMain ==
  /\ cu.op = "none"
  /\ \E randOk \in BOOLEAN, iv \in UtilIvs, encFail \in 0..EncryptCalls,
        decFail \in 0..DecryptCalls :
       LET e == main(randOk, iv, encFail, decFail) IN
         /\ encFail = 2 => iv = Zeros(GCM_IV_LEN)
         /\ cu' = [NoCall EXCEPT !.op = "main", !.plaintext = MainPlaintext,
                                 !.key = MainKey, !.iv = iv,
                                 !.failAt = IF ~randOk THEN 1
                                            ELSE IF encFail # 0 THEN 1 + encFail
                                            ELSE IF decFail # 0 THEN 1 + EncryptCalls + decFail
                                            ELSE 0,
                                 !.code = e.code, !.exit = e.exit]
  /\ UNCHANGED << tlsVars, fips, cli >>

NextUtils == DrawCall \/ EncryptUtil \/ DecryptUtil \/ RunMain

SpecUtils == InitUtils /\ [][NextUtils]_vars

----------------------------------------------------------------------------
(* The FIPS provider: one fips_provider_context_t of the caller, all zero  *)
(* or declared with indeterminate content, and the calls made on it.       *)

\* what a call on the FIPS provider leaves behind
FipsCall(c, op, arg, name, res) ==
  [ctx |-> c, pre |-> fips.ctx, op |-> op, arg |-> arg, name |-> name, res |-> res,
   info |-> InfoBefore, stack |-> Zeros(32)]

\* the variables fips_provider.c does not touch
FipsFrame == UNCHANGED << tlsVars, cu, cli >>

InitFips == AfterInit([h \in HandleNames |-> TRUE])

\* the caller declares the context
FipsDeclare ==
  /\ fips.op = "none"
  /\ \E c \in FipsDeclared :
       fips' = [FipsCall(c, "declare", "ok", NullStr, 0) EXCEPT !.pre = c]
  /\ FipsFrame

FipsInit ==
  /\ \E arg \in {"ok", "null_ctx"} :
       LET r == fips_provider_init(fips.ctx, arg)
       IN  fips' = FipsCall(r.ctx, "init", arg, NullStr, r.res)
  /\ FipsFrame

FipsIsApproved ==
  /\ \E n \in FipsNames :
       fips' = FipsCall(fips.ctx, "is_approved", "ok", n, fips_is_algorithm_approved(n))
  /\ FipsFrame

FipsContinuousSelftest ==
  /\ fips.op # "none"
  /\ \E arg \in {"ok", "null_ctx"} :
       LET r == fips_run_continuous_selftest(fips.ctx, arg)
       IN  fips' = FipsCall(r.ctx, "continuous", arg, NullStr, r.res)
  /\ FipsFrame

FipsGetStatus ==
  /\ fips.op # "none"
  /\ \E arg \in {"ok", "null_ctx"} :
       fips' = FipsCall(fips.ctx, "get_status", arg, NullStr,
                        fips_get_selftest_status(fips.ctx, arg))
  /\ FipsFrame

FipsCleanup ==
  /\ fips.op # "none"
  /\ \E arg \in {"ok", "null_ctx"} :
       fips' = FipsCall(fips_provider_cleanup(fips.ctx, arg), "cleanup", arg, NullStr, 0)
  /\ FipsFrame

\* the caller passes a fips_module_info_t holding InfoBefore
FipsGetModuleInfo ==
  /\ fips.op # "none"
  /\ \E arg \in {"ok", "null_ctx", "null_info"} :
       LET r == fips_get_module_info(fips.ctx, arg, InfoBefore)
       IN  fips' = [FipsCall(r.ctx, "get_module_info", arg, NullStr, r.res)
                      EXCEPT !.info = r.info]
  /\ FipsFrame

FipsVerifyIntegrity ==
  /\ fips.op # "none"
  /\ \E arg \in {"ok", "null_ctx"}, stack \in FipsStacks :
       LET r == fips_verify_module_integrity(fips.ctx, arg, stack)
       IN  fips' = [FipsCall(r.ctx, "verify_integrity", arg, NullStr, r.res)
                      EXCEPT !.stack = stack]
  /\ FipsFrame

NextFips ==
  \/ FipsDeclare
  \/ FipsInit
  \/ FipsGetModuleInfo
  \/ FipsVerifyIntegrity
  \/ FipsIsApproved
  \/ FipsContinuousSelftest
  \/ FipsGetStatus
  \/ FipsCleanup

SpecFips == InitFips /\ [][NextFips]_vars

----------------------------------------------------------------------------
(* The command line program: the shell starts it with a command line and   *)
(* an environment, and it runs openssl_cli_main once.                      *)

InitCli == AfterInit([h \in HandleNames |-> TRUE])

CliStart ==
  /\ cli.op = "none"
  /\ \E argv \in CliArgvs, posix \in BOOLEAN :
       cli' = [NoCli EXCEPT !.op = "start", !.argv = argv, !.posix = posix]
  /\ UNCHANGED << tlsVars, cu, fips >>

CliMain ==
  /\ cli.op = "start"
  /\ cli' = [cli EXCEPT !.op = "main", !.run = openssl_cli_main(cli.argv, cli.posix)]
  /\ UNCHANGED << tlsVars, cu, fips >>

NextCli == CliStart \/ CliMain

SpecCli == InitCli /\ [][NextCli]_vars

----------------------------------------------------------------------------
(* Claims *)

RecordOps == {"encrypt", "decrypt"}

\* the message kind the state table accepts in a handshake state
AcceptedKind(st) ==
  CASE st = TLS_STATE_CLIENT_HELLO       -> "CLIENT_HELLO"
    [] st = TLS_STATE_SERVER_HELLO       -> "SERVER_HELLO"
    [] st = TLS_STATE_CHANGE_CIPHER_SPEC -> "CHANGE_CIPHER_SPEC"
    [] st = TLS_STATE_FINISHED           -> "FINISHED"
    [] OTHER                             -> "NONE"

RecognisedKinds == {"CLIENT_HELLO", "SERVER_HELLO", "CHANGE_CIPHER_SPEC", "FINISHED"}

\* C1: from a fresh context, the well-formed CLIENT_HELLO, SERVER_HELLO,
\* CHANGE_CIPHER_SPEC (flag byte 1) and FINISHED, processed in order with
\* every provider call succeeding, each return success, and the context
\* ends in APPLICATION_DATA.
C1_HandshakeCompletes ==
  /\ hs >= 1 => hsOk
  /\ hs = 4 => ctx.state = TLS_STATE_APPLICATION_DATA

\* C2: a message with a complete header whose type is recognised but is not
\* the one accepted in the current state returns InvalidState and leaves
\* every field of the context as it was.
C2_WrongTypeRejected ==
  ( /\ lastOp = "process"
    /\ lastArg = "ok"
    /\ Len(lastMsg.data) >= 4
    /\ lastMsg.kind \in RecognisedKinds
    /\ lastMsg.kind # AcceptedKind(pre.state) )
  => (lastRes = TLS_ERROR_INVALID_STATE /\ ctx = pre)

\* C3: outside APPLICATION_DATA, encrypt and decrypt with all arguments
\* present return InvalidState, ask the provider for no block transform and
\* leave the context, sequence_number included, unchanged.
C3_NoRecordBeforeHandshakeDone ==
  (lastOp \in RecordOps /\ lastArg = "ok" /\ pre.state # TLS_STATE_APPLICATION_DATA)
  => (lastRes = TLS_ERROR_INVALID_STATE /\ out.calls = 0 /\ out.buf = << >> /\ ctx = pre)

C3_Witness ==
  /\ lastOp \in RecordOps
  /\ lastArg = "ok"
  /\ lastMsg.wf
  /\ pre.state = TLS_STATE_FINISHED
  /\ lastRes = TLS_ERROR_INVALID_STATE

\* C4: in APPLICATION_DATA, decrypt applied to the record that encrypt made
\* of a plaintext of a positive multiple of 16 bytes, the provider not
\* failing, succeeds and returns that plaintext with its length.
C4_RoundTrip ==
  ( /\ lastOp = "decrypt"
    /\ lastArg = "ok"
    /\ pre.state = TLS_STATE_APPLICATION_DATA
    /\ Len(wire) > 0
    /\ lastMsg.data = wire
    /\ ~provFail )
  => (lastRes = TLS_SUCCESS /\ out.buf = sent /\ out.len = Len(sent))

C4_Witness ==
  /\ lastOp = "decrypt"
  /\ pre.state = TLS_STATE_APPLICATION_DATA
  /\ Len(wire) = 2 * BLOCK_LEN
  /\ lastMsg.data = wire
  /\ lastRes = TLS_SUCCESS
  /\ out.buf = sent

\* C5: decrypt of a record that encrypt produced, with a single bit
\* changed, returns CryptoFailure, and never success with another plaintext.
C5_TamperDetected ==
  (lastOp = "decrypt" /\ tampered /\ pre.state = TLS_STATE_APPLICATION_DATA)
  => (lastRes = TLS_ERROR_CRYPTO_FAILURE /\ out.buf = << >>)

\* C6: sequence_number is 0 after init, is one more after every encrypt or
\* decrypt that returns success, and is unchanged by every encrypt or
\* decrypt that returns an error and by every processMessage and getState.
C6_SequenceNumber ==
  /\ (lastOp = "init" /\ lastRes = TLS_SUCCESS) => ctx.sequence_number = Zero64
  /\ (lastOp \in RecordOps /\ lastRes = TLS_SUCCESS)
       => Low64(ctx.sequence_number) = Low64(pre.sequence_number) + 1
  /\ (lastOp \in RecordOps /\ lastRes # TLS_SUCCESS)
       => ctx.sequence_number = pre.sequence_number
  /\ lastOp \in {"process", "get_state", "crash"}
       => ctx.sequence_number = pre.sequence_number

\* a provider failure on the second block of a record, after one record
\* went through
C6_Witness ==
  /\ lastOp \in RecordOps
  /\ lastRes = TLS_ERROR_CRYPTO_FAILURE
  /\ out.calls = 2
  /\ Low64(pre.sequence_number) = 1
  /\ Low64(ctx.sequence_number) = 1

TrafficValues(c) ==
  << c.client_write_key, c.server_write_key, c.client_write_iv, c.server_write_iv >>

\* C7: once the key schedule has run for a handshake (the state is FINISHED
\* or APPLICATION_DATA), none of the four traffic values is all-zero and the
\* four are pairwise distinct.
C7_TrafficKeysNonzeroDistinct ==
  ctx.state \in {TLS_STATE_FINISHED, TLS_STATE_APPLICATION_DATA}
  => LET v == TrafficValues(ctx) IN
       /\ \A i \in 1..4 : ~IsZero(v[i])
       /\ \A i \in 1..4 : \A j \in 1..4 : i # j => v[i] # v[j]

C7_Witness ==
  /\ ctx.state = TLS_STATE_APPLICATION_DATA
  /\ ctx.master_secret = tls_derive_master_secret(PlaceholderSharedSecret)
  /\ ctx.client_write_key[1] = 200
  /\ ctx.server_write_key[1] = 72

\* C8: the key schedule gives equal outputs for equal shared secrets, and
\* different master secrets for two shared secrets of the same length that
\* differ in at least one byte.
C8_KeyScheduleSensitive ==
  kdf.run =>
    /\ kdf.ss1 = kdf.ss2 => kdf.out1 = kdf.out2
    /\ (Len(kdf.ss1) = Len(kdf.ss2) /\ kdf.ss1 # kdf.ss2) => kdf.out1[1] # kdf.out2[1]

\* C9: after cleanup the master secret, the four traffic values and the two
\* randoms are all-zero, every handle is NULL and every handle the context
\* held has been released.
C9_CleanupZeroes ==
  lastOp = "cleanup" =>
    /\ IsZero(ctx.master_secret)
    /\ \A i \in 1..4 : IsZero(TrafficValues(ctx)[i])
    /\ IsZero(ctx.client_random) /\ IsZero(ctx.server_random)
    /\ \A h \in HandleNames :
         /\ ctx[h] = NULL
         /\ pre[h] # NULL => heap[h].st = "freed"
    /\ pre.aes_ctx # NULL => aes.st = "cleared"

C9_Witness ==
  /\ lastOp = "cleanup"
  /\ ~IsZero(pre.master_secret)
  /\ ~IsZero(pre.client_write_key)
  /\ ~IsZero(pre.client_random)
  /\ pre.aes_ctx # NULL
  /\ IsZero(ctx.master_secret)

\* C10: processMessage, encrypt, decrypt and getState move the state only
\* from one handshake state to the next, and only by a processMessage that
\* returns success, which always does so; in APPLICATION_DATA every message
\* is rejected and the state stays; ERROR is never left.
C10_ForwardOnly ==
  lastOp \in {"process", "encrypt", "decrypt", "get_state"} =>
    /\ ctx.state # pre.state =>
         /\ lastOp = "process"
         /\ lastRes = TLS_SUCCESS
         /\ pre.state < TLS_STATE_APPLICATION_DATA
         /\ ctx.state = pre.state + 1
    /\ (lastOp = "process" /\ lastRes = TLS_SUCCESS) => ctx.state = pre.state + 1
    /\ (lastOp = "process" /\ pre.state = TLS_STATE_APPLICATION_DATA)
         => (lastRes # TLS_SUCCESS /\ ctx.state = TLS_STATE_APPLICATION_DATA)
    /\ pre.state = TLS_STATE_ERROR => ctx.state = TLS_STATE_ERROR

C10_Witness ==
  /\ lastOp = "process"
  /\ lastArg = "ok"
  /\ lastMsg.wf
  /\ pre.state = TLS_STATE_APPLICATION_DATA
  /\ lastRes = TLS_ERROR_INVALID_STATE
  /\ ctx.state = TLS_STATE_APPLICATION_DATA

\* C11: a provider failure while a valid CHANGE_CIPHER_SPEC is processed in
\* state CHANGE_CIPHER_SPEC returns CryptoFailure and moves the context to
\* ERROR, so that the derivation cannot be run on it again.
C11_ProviderFailureIsTerminal ==
  ( /\ lastOp = "handler"
    /\ lastMsg.wf
    /\ pre.state = TLS_STATE_CHANGE_CIPHER_SPEC
    /\ provFail )
  => (lastRes = TLS_ERROR_CRYPTO_FAILURE /\ ctx.state = TLS_STATE_ERROR)

\* the minimum length of a hello message: 4-byte header and 32-byte random
HelloMinLen == 4 + RANDOM_LEN

\* C12: a CLIENT_HELLO in state CLIENT_HELLO, or a SERVER_HELLO in state
\* SERVER_HELLO, that is shorter than 36 bytes returns InvalidMessage, is
\* not read beyond its length, and leaves the state and both randoms as
\* they were.
C12_ShortMessageRejected ==
  ( /\ lastOp \in {"process", "crash"}
    /\ lastArg = "ok"
    /\ lastMsg.kind \in {"CLIENT_HELLO", "SERVER_HELLO"}
    /\ lastMsg.kind = AcceptedKind(pre.state)
    /\ Len(lastMsg.data) < HelloMinLen )
  => ( /\ lastOp = "process"
       /\ lastRes = TLS_ERROR_INVALID_MESSAGE
       /\ ctx.state = pre.state
       /\ ctx.client_random = pre.client_random
       /\ ctx.server_random = pre.server_random )

C14_PositiveBlockMultiple ==
  ( /\ lastOp \in RecordOps
    /\ lastArg = "ok"
    /\ pre.state = TLS_STATE_APPLICATION_DATA
    /\ ~(Len(lastMsg.data) > 0 /\ Len(lastMsg.data) % BLOCK_LEN = 0) )
  => ( /\ lastRes = TLS_ERROR_INVALID_BLOCK_SIZE
       /\ out.calls = 0
       /\ ctx.sequence_number = pre.sequence_number )

\* C15: every successful encrypt protects its record under a nonce made of
\* the write IV and sequence_number, and no nonce is used twice: the same
\* plaintext encrypted again on the same context, at a later sequence
\* number, gives a different record.
C15_NonceNeverReused ==
  [][ ( /\ lastOp' = "encrypt"
        /\ lastRes' = TLS_SUCCESS
        /\ ctx.state = TLS_STATE_APPLICATION_DATA
        /\ Len(sent) > 0
        /\ lastMsg'.data = sent
        /\ ctx'.sequence_number # ctx.sequence_number )
      => wire' # wire ]_vars

\* C16: cleanup is idempotent and safe on a partly constructed context:
\* whatever subset of the four handles init acquired, each acquired object
\* is released exactly once and an object that was never acquired is never
\* released; a cleanup of a context that was cleaned up before releases
\* nothing and changes nothing.
C16_CleanupReleasesOnce ==
  /\ \A h \in HandleNames :
       /\ heap[h].frees <= 1
       /\ heap[h].st = "none" => heap[h].frees = 0
       /\ heap[h].st = "freed" <=> heap[h].frees = 1
       /\ heap[h].st = "live" <=> ctx[h] # NULL
  /\ (lastOp = "cleanup" \/ (lastOp = "init" /\ lastRes # TLS_SUCCESS))
       => \A h \in HandleNames : heap[h].st # "live" /\ ctx[h] = NULL
  /\ (lastOp = "init" /\ lastRes = TLS_ERROR_MEMORY_ALLOCATION)
       => \E h \in HandleNames : heap[h] = NoObject
  /\ (lastOp = "cleanup" /\ pre = ZeroContext) => ctx = pre

\* a second cleanup after an init that acquired some handles and not others
C16_Witness ==
  /\ lastOp = "cleanup"
  /\ pre = ZeroContext
  /\ ctx = ZeroContext
  /\ \E h \in HandleNames : heap[h].st = "freed" /\ heap[h].frees = 1
  /\ \E h \in HandleNames : heap[h] = NoObject

\* C17: on a context that cleanup has left without handles, and that has
\* not been initialised again, every processMessage, encrypt and decrypt
\* call returns an error and changes nothing; in particular no
\* CLIENT_HELLO is accepted.
C17_NothingAfterCleanup ==
  ( /\ lastOp \in {"process", "crash"} \cup RecordOps
    /\ lastArg = "ok"
    /\ \A h \in HandleNames : pre[h] = NULL )
  => ( /\ lastOp # "crash"
       /\ lastRes # TLS_SUCCESS
       /\ ctx = pre )

\* the secrets and counters a failed call must leave alone
KeyedFields(c) ==
  << c.client_random, c.server_random, c.master_secret,
     c.client_write_key, c.server_write_key,
     c.client_write_iv, c.server_write_iv, c.sequence_number >>

\* C18: a message-processing, encrypt or decrypt call that returns an
\* error, a provider failure after the key derivation included, leaves the
\* randoms, the master secret, the traffic keys and IVs and
\* sequence_number exactly as they were before the call.
C18_FailedCallIsAtomic ==
  ( /\ lastOp \in {"process", "handler"} \cup RecordOps
    /\ lastRes # TLS_SUCCESS )
  => KeyedFields(ctx) = KeyedFields(pre)

\* C19: the master secret and the four traffic keys and IVs are all zero
\* whenever the handshake state is CLIENT_HELLO, SERVER_HELLO or
\* CHANGE_CIPHER_SPEC.
C19_NoKeysBeforeFinished ==
  ctx.state \in { TLS_STATE_CLIENT_HELLO, TLS_STATE_SERVER_HELLO,
                  TLS_STATE_CHANGE_CIPHER_SPEC }
  => ( /\ IsZero(ctx.master_secret)
       /\ IsZero(ctx.client_write_key)
       /\ IsZero(ctx.server_write_key)
       /\ IsZero(ctx.client_write_iv)
       /\ IsZero(ctx.server_write_iv) )

\* the bytes of a stored random that the message supplies are the bytes
\* that follow its 4-byte header
TakenFromMessage(random, data) ==
  \A i \in 1..RANDOM_LEN : 4 + i <= Len(data) => random[i] = data[4 + i]

C21_OneHandlerPerCode ==
  /\ \A j, k \in 1..Len(CaseLabels) :
       j # k => CaseLabels[j].label # CaseLabels[k].label
  /\ ( /\ lastOp = "process"
       /\ lastArg = "ok"
       /\ Len(lastMsg.data) >= 4 )
     => Cardinality(Dispatch(lastMsg.data)) = 1

\* C22: in state CHANGE_CIPHER_SPEC, a CHANGE_CIPHER_SPEC message with flag
\* byte 1 is accepted, derives the keys and moves the state to FINISHED; one
\* with no flag byte or another flag byte returns InvalidMessage, derives
\* nothing and leaves the state CHANGE_CIPHER_SPEC.
C22_ChangeCipherSpecFlag ==
  ( /\ lastOp = "process"
    /\ lastArg = "ok"
    /\ ~provFail
    /\ pre.state = TLS_STATE_CHANGE_CIPHER_SPEC
    /\ lastMsg.kind = "CHANGE_CIPHER_SPEC" )
  => IF lastMsg.wf
       THEN /\ lastRes = TLS_SUCCESS
            /\ ctx.state = TLS_STATE_FINISHED
            /\ ctx.master_secret = tls_derive_master_secret(PlaceholderSharedSecret)
            /\ ctx = tls_derive_traffic_keys([ctx EXCEPT !.state = TLS_STATE_FINISHED])
       ELSE /\ lastRes = TLS_ERROR_INVALID_MESSAGE
            /\ ctx = pre

C24_InitResult ==
  lastOp = "init" =>
    /\ lastRes \in {TLS_SUCCESS, TLS_ERROR_MEMORY_ALLOCATION}
    /\ lastRes = TLS_ERROR_MEMORY_ALLOCATION
         <=> \E h \in HandleNames : heap[h].st # "live"
    /\ lastRes = TLS_SUCCESS
         => /\ ctx.state = TLS_STATE_CLIENT_HELLO
            /\ ctx.sequence_number = Zero64
            /\ IsZero(ctx.client_random) /\ IsZero(ctx.server_random)
            /\ IsZero(ctx.master_secret)
            /\ \A i \in 1..4 : IsZero(TrafficValues(ctx)[i])
            /\ \A h \in HandleNames : ctx[h] # NULL /\ heap[h] = LiveObject
    /\ lastRes = TLS_ERROR_MEMORY_ALLOCATION
         => /\ \A h \in HandleNames : ctx[h] = NULL /\ heap[h].st # "live"
            /\ \E h \in HandleNames : heap[h] = NoObject

\* an init that acquires some handles, fails on another and has released
\* the ones it acquired
C24_Witness ==
  /\ lastOp = "init"
  /\ lastRes = TLS_ERROR_MEMORY_ALLOCATION
  /\ \E h \in HandleNames : heap[h].st = "freed"
  /\ \E h \in HandleNames : heap[h] = NoObject
  /\ \A h \in HandleNames : ctx[h] = NULL

\* C25: the master secret depends on the handshake randoms: a handshake
\* whose client_random or server_random differs from that of the handshake
\* of HandlerStage, with the same shared secret, does not derive the master
\* secret that handshake derives.
C25_MasterSecretDependsOnRandoms ==
  ( /\ ctx.state \in {TLS_STATE_FINISHED, TLS_STATE_APPLICATION_DATA}
    /\ \/ ctx.client_random # HandlerStage(3).ctx.client_random
       \/ ctx.server_random # HandlerStage(3).ctx.server_random )
  => ctx.master_secret # HandlerStage(3).ctx.master_secret

\* every byte moved on by half the byte range
HalfTurn(k) == [i \in 1..Len(k) |-> (k[i] + (U8 \div 2)) % U8]

\* C26: no traffic value can be computed from another one without the
\* master secret: over two derivations from different master secrets, one
\* fixed function does not turn the client write key into the server write
\* key in both, nor the client write IV into the server write IV.
C26_TrafficValuesUnlinkable ==
  (kdf.run /\ kdf.out1[1] # kdf.out2[1])
  => ( /\ ~( /\ kdf.out1[3] = HalfTurn(kdf.out1[2])
             /\ kdf.out2[3] = HalfTurn(kdf.out2[2]) )
       /\ ~( /\ kdf.out1[5] = HalfTurn(kdf.out1[4])
             /\ kdf.out2[5] = HalfTurn(kdf.out2[4]) ) )

\* C27: message processing, encrypt and decrypt called without a context,
\* or without an input or output buffer, return InvalidParam in every
\* handshake state and change nothing; the state query without a context
\* answers ERROR.
C27_AbsentArguments ==
  /\ (lastOp \in {"process"} \cup RecordOps /\ lastArg # "ok")
       => /\ lastRes = TLS_ERROR_INVALID_PARAM
          /\ ctx = pre
          /\ out = NoOut
  /\ (lastOp = "get_state" /\ lastArg # "ok") => lastRes = TLS_STATE_ERROR

\* decrypt without a buffer on a context that is protecting records
C27_Witness ==
  /\ lastOp = "decrypt"
  /\ lastArg = "null_buf"
  /\ pre.state = TLS_STATE_APPLICATION_DATA
  /\ Low64(pre.sequence_number) > 0
  /\ lastRes = TLS_ERROR_INVALID_PARAM
  /\ ctx = pre

\* C28: for every plaintext and every key of exactly 32 bytes, when the
\* OpenSSL calls succeed, decrypt_aes256_gcm of what encrypt_aes256_gcm
\* returned, under the same key, is the plaintext.
C28_UtilRoundTrip ==
  ( /\ cu.op = "decrypt"
    /\ Len(cu.key) = AES256_KEY_LEN
    /\ Len(cu.enc) > 0
    /\ cu.input = cu.enc
    /\ cu.dkey = cu.key
    /\ cu.failAt = 0 )
  => (cu.ret.str = cu.plaintext /\ ~cu.ret.thrown)

\* the round trip of a 16-byte plaintext with bytes above 127 and a random IV
C28_Witness ==
  /\ cu.op = "decrypt"
  /\ cu.key = Pattern(AES256_KEY_LEN, 7)
  /\ cu.plaintext = Pattern(BLOCK_LEN, 250)
  /\ cu.iv = Pattern(GCM_IV_LEN, 200)
  /\ cu.input = cu.enc
  /\ Len(cu.enc) = MinHexLen + 2 * BLOCK_LEN
  /\ cu.dkey = cu.key
  /\ cu.failAt = 0
  /\ cu.ret.str = cu.plaintext

\* C29: both functions return the empty string, without an OpenSSL call,
\* when the key is not exactly 32 bytes long, and decrypt_aes256_gcm also
\* for an input of fewer than 56 characters.
C29_UtilRejectsBadInput ==
  /\ (cu.op \in {"encrypt", "decrypt"} /\ Len(cu.dkey) # AES256_KEY_LEN)
       => cu.ret = Returned(<< >>, FALSE, 0)
  /\ (cu.op = "decrypt" /\ Len(cu.input) < MinHexLen)
       => cu.ret = Returned(<< >>, FALSE, 0)

\* decrypt of a string one character short of an IV and a tag, under a
\* 32-byte key
C29_Witness ==
  /\ cu.op = "decrypt"
  /\ Len(cu.dkey) = AES256_KEY_LEN
  /\ Len(cu.input) = MinHexLen - 1
  /\ cu.ret = Returned(<< >>, FALSE, 0)

\* C30: fips_is_algorithm_approved returns FIPS_SUCCESS exactly for the
\* names that are, letter for letter, an entry of the table of approved
\* algorithms and FIPS_ERROR_ALGORITHM_NOT_APPROVED for every other name
\* that is not null, whatever has been done with a provider context before
\* (nothing, init, self-tests, cleanup), and it changes nothing.
C30_ApprovedExactlyTheTable ==
  (fips.op = "is_approved" /\ ~fips.name.null)
  => ( /\ fips.res = IF fips.name.s \in { fips_approved_algorithms[i] :
                                            i \in 1..Len(fips_approved_algorithms) }
                       THEN FIPS_SUCCESS
                       ELSE FIPS_ERROR_ALGORITHM_NOT_APPROVED
       /\ fips.ctx = fips.pre )

\* the last entry of the table asked about on a context that has been
\* initialised and cleaned up
C30_Witness ==
  /\ fips.op = "is_approved"
  /\ fips.name = CStr("KDF-PBKDF2-SHA512")
  /\ fips.ctx = FipsZeroContext
  /\ fips.res = FIPS_SUCCESS

\* the names of the command table
CommandNames == { command_handlers[i].name : i \in 1..Len(command_handlers) }

\* C31: openssl_cli_main returns 0 after showing help when the help option
\* is given or no command is present; it returns a non-zero code and runs no
\* handler when parsing fails or the command is not in the table; otherwise
\* it runs exactly the handler registered under the command name and returns
\* its result
C31_CliDispatch ==
  cli.op = "main" =>
    LET r == cli.run
        helpCase == r.ctx.help = 1 \/ r.ctx.command.null
        errorCase == r.rc # 0 \/ (~r.ctx.command.null /\ r.ctx.command.s \notin CommandNames)
    IN  /\ helpCase => (r.ret = 0 /\ r.help /\ r.ran = << >>)
        /\ errorCase => (r.ret # 0 /\ r.ran = << >>)
        /\ (~helpCase /\ ~errorCase)
           => \E k \in 1..Len(command_handlers) :
                /\ command_handlers[k].name = r.ctx.command.s
                /\ r.ran = << command_handlers[k].handler >>
                /\ r.ret = HandlerResult(command_handlers[k].handler, r.ctx)

\* C31, with the order of the tests: a failed parse gives a non-zero code, no
\* help and no handler; after a successful parse the help option or a missing
\* command gives help and 0; after that a command outside the table gives a
\* non-zero code and no handler; and a command of the table runs exactly the
\* handler registered under it and returns its result
C31_CliDispatchInOrder ==
  cli.op = "main" =>
    LET r == cli.run
        helpCase == r.ctx.help = 1 \/ r.ctx.command.null
    IN  /\ r.rc # 0 => (r.ret # 0 /\ r.ran = << >> /\ ~r.help)
        /\ (r.rc = 0 /\ helpCase) => (r.ret = 0 /\ r.help /\ r.ran = << >>)
        /\ (r.rc = 0 /\ ~helpCase /\ r.ctx.command.s \notin CommandNames)
           => (r.ret # 0 /\ r.ran = << >> /\ ~r.help)
        /\ (r.rc = 0 /\ ~helpCase /\ r.ctx.command.s \in CommandNames)
           => /\ ~r.help
              /\ \E k \in 1..Len(command_handlers) :
                   /\ command_handlers[k].name = r.ctx.command.s
                   /\ r.ran = << command_handlers[k].handler >>
                   /\ r.ret = HandlerResult(command_handlers[k].handler, r.ctx)

\* "--fips enc" runs the handler of enc with FIPS mode set
C31_Witness ==
  /\ cli.op = "main"
  /\ cli.argv = << "--fips", "enc" >>
  /\ cli.run.ctx.fips_mode = 1
  /\ cli.run.ran = << "handle_enc_command" >>
  /\ cli.run.ret = 0

\* C32: fips_provider_init on a non-null context returns FIPS_SUCCESS and
\* leaves selftest_status PASSED, and fips_get_module_info on the context it
\* leaves returns the module information
C32_InitPassesSelfTests ==
  /\ (fips.op = "init" /\ fips.arg = "ok")
     => ( /\ fips.res = FIPS_SUCCESS
          /\ fips.ctx.selftest_status = FIPS_SELFTEST_PASSED
          /\ fips.ctx.power_on_selftest_passed = 1
          /\ fips.ctx.conditional_selftest_passed = 1 )
  /\ (fips.op = "get_module_info" /\ fips.arg = "ok"
        /\ fips.pre = fips_provider_init(FipsZeroContext, "ok").ctx)
     => (fips.res = FIPS_SUCCESS /\ fips.info = InfoOf(fips.pre))

\* C33: on a context whose selftest_status is not PASSED, fips_get_module_info,
\* fips_verify_module_integrity and fips_run_continuous_selftest return
\* FIPS_ERROR_SELFTEST_NOT_PASSED, leave the caller's fips_module_info_t as it
\* was and leave the context unchanged
C33_NotPassedRefuses ==
  ( /\ fips.op \in {"get_module_info", "verify_integrity", "continuous"}
    /\ fips.arg = "ok"
    /\ fips.pre.selftest_status # FIPS_SELFTEST_PASSED )
  => ( /\ fips.res = FIPS_ERROR_SELFTEST_NOT_PASSED
       /\ fips.info = InfoBefore
       /\ fips.ctx = fips.pre )

\* fips_get_module_info refused on the context a failed fips_provider_init
\* left, which holds the module fields
C33_Witness ==
  /\ fips.op = "get_module_info"
  /\ fips.arg = "ok"
  /\ fips.pre = fips_provider_init(FipsZeroContext, "ok").ctx
  /\ fips.pre.selftest_status = FIPS_SELFTEST_NOT_RUN
  /\ fips.pre.module_id # Zeros(16)
  /\ fips.res = FIPS_ERROR_SELFTEST_NOT_PASSED
  /\ fips.info = InfoBefore

\* C34: fips_provider_init leaves the status PASSED exactly when it returns
\* FIPS_SUCCESS and NOT_RUN otherwise; fips_run_continuous_selftest changes
\* the status only from PASSED to FAILED and exactly when it returns the
\* failure of the conditional self-test; fips_provider_cleanup leaves NOT_RUN;
\* no other call changes the status, so FAILED becomes PASSED only by
\* fips_provider_init
C34_StatusTransitions ==
  /\ (fips.op = "init" /\ fips.arg = "ok")
     => ( /\ (fips.ctx.selftest_status = FIPS_SELFTEST_PASSED) <=> (fips.res = FIPS_SUCCESS)
          /\ fips.res # FIPS_SUCCESS => fips.ctx.selftest_status = FIPS_SELFTEST_NOT_RUN )
  /\ (fips.op = "continuous" /\ fips.arg = "ok")
     => ( /\ fips.ctx.selftest_status # fips.pre.selftest_status
             <=> ( /\ fips.pre.selftest_status = FIPS_SELFTEST_PASSED
                   /\ fips.res = FIPS_ERROR_SELFTEST_FAILED )
          /\ fips.ctx.selftest_status # fips.pre.selftest_status
             => fips.ctx.selftest_status = FIPS_SELFTEST_FAILED )
  /\ (fips.op = "cleanup" /\ fips.arg = "ok")
     => fips.ctx.selftest_status = FIPS_SELFTEST_NOT_RUN
  /\ ( \/ fips.op \in {"is_approved", "get_module_info", "verify_integrity", "get_status"}
       \/ (fips.op \in {"init", "continuous", "cleanup"} /\ fips.arg # "ok") )
     => fips.ctx.selftest_status = fips.pre.selftest_status
  /\ ( /\ fips.pre.selftest_status = FIPS_SELFTEST_FAILED
       /\ fips.ctx.selftest_status = FIPS_SELFTEST_PASSED )
     => fips.op = "init"

\* fips_provider_cleanup on a context whose status was PASSED
C34_Witness ==
  /\ fips.op = "cleanup"
  /\ fips.arg = "ok"
  /\ fips.pre.selftest_status = FIPS_SELFTEST_PASSED
  /\ fips.ctx.selftest_status = FIPS_SELFTEST_NOT_RUN

\* C35: on a context whose status is PASSED, fips_verify_module_integrity
\* returns FIPS_SUCCESS when the stored integrity value equals the one
\* recomputed from the module id, version, name and certificate number, and
\* FIPS_ERROR_INTEGRITY_CHECK_FAILED when it does not: the result is a
\* function of the context
C35_IntegrityByContents ==
  (fips.op = "verify_integrity" /\ fips.arg = "ok"
     /\ fips.pre.selftest_status = FIPS_SELFTEST_PASSED)
  => fips.res = IF fips.pre.integrity_value
                     = fips_calculate_integrity_value(fips.pre).integrity_value
                  THEN FIPS_SUCCESS
                  ELSE FIPS_ERROR_INTEGRITY_CHECK_FAILED

\* C36: a run of the example program in which no OpenSSL call fails returns 0
\* and takes neither the "Encryption failed" nor the "Decryption failed" exit
C36_ExampleRunSucceeds ==
  (cu.op = "main" /\ cu.failAt = 0)
  => (cu.code = 0 /\ cu.exit = "return 0")

============================================================================
